---------------------------- MODULE Spec2Model ----------------------------
(***************************************************************************)
(* Orchestration core of the fleet-automation engine:                      *)
(*   - the host-pattern resolver   (lib/ansible/inventory/manager.py)      *)
(*   - the execution strategy base (lib/ansible/plugins/strategy/__init__) *)
(*                                                                         *)
(* Host and group names are strings.  TLA+ strings are atomic, so the      *)
(* characters of every name of the bounded universe are given by Chars;    *)
(* glob matching is computed on those characters.                          *)
(*                                                                         *)
(* A pattern is the list of its terms, i.e. the text after                 *)
(* split_host_pattern has cut it at the commas.  A term is a record        *)
(* [pfx, name]: pfx is "", "&" or "!" and name is the rest of its text.    *)
(***************************************************************************)
EXTENDS Integers, Sequences, FiniteSets, TLC

VARIABLES
    \* ---- InventoryData, as InventoryManager reads it
    inv_hosts,             \* InventoryData.hosts: host names, in iteration order
    inv_groups,            \* InventoryData.groups: name -> Group.get_hosts()
    \* ---- InventoryManager
    hosts_patterns_cache,  \* _hosts_patterns_cache: pattern_hash -> host list
    pattern_cache,         \* _pattern_cache: stripped term -> host list
    restriction,           \* _restriction: None or list of host names
    subset,                \* _subset: None or list of terms
    ret,                   \* the last get_hosts call: its arguments and its result
    ncalls,                \* number of get_hosts calls made so far
    g1, g2                 \* the two terms the caller builds its patterns from

VARIABLES
    \* ---- the play and its iterator
    play,                  \* the Play: hosts, tasks, rescue, handlers, force_handlers
    host_states,           \* PlayIterator._host_states: host -> HostState
    ran_once,              \* the run_once tasks that already have their representative
    \* ---- StrategyBase
    workers,               \* _workers: slot -> the worker process last started in it
    cur_worker,            \* _cur_worker (1-based here)
    pending_results,       \* _pending_results
    blocked_hosts,         \* _blocked_hosts
    queued_task_cache,     \* _queued_task_cache: the (host, task) keys
    final_q,               \* _final_q: the result channel the workers write
    results,               \* _results: the deque the reader thread fills
    notified_handlers,     \* _notified_handlers: handler -> list of hosts
    drv,                   \* where the driver is, and the locals it holds there
    \* ---- TaskQueueManager, statistics, variables
    failed_hosts,          \* _tqm._failed_hosts
    unreachable_hosts,     \* _tqm._unreachable_hosts
    terminated,            \* _tqm._terminated
    removed_hosts,         \* iterator._play._removed_hosts
    stats,                 \* _tqm._stats: host -> counters
    custom_stats,          \* _tqm._stats.custom: host -> data
    facts,                 \* facts the variable manager holds for each host
    \* ---- history, read by the properties only
    last,                  \* the step just taken
    flush                  \* the handler flush under way: ledger on entry, dispatches

VARIABLES
    tr,                    \* a TaskResult and the last call made on it
    fc,                    \* a BaseFileCacheModule, its directory and the clock
    ch                     \* the result channel, the deque, its lock, the two threads

VARIABLES
    inv_objs,              \* InventoryData.groups: name -> the Group's hosts, child_groups
    change                 \* the last operation that rebuilt or changed the inventory

ivars == <<inv_hosts, inv_groups, hosts_patterns_cache, pattern_cache,
           restriction, subset, ret, ncalls, g1, g2>>

svars == <<play, host_states, ran_once, workers, cur_worker, pending_results,
           blocked_hosts, queued_task_cache, final_q, results, notified_handlers,
           drv, failed_hosts, unreachable_hosts, terminated, removed_hosts, stats,
           custom_stats, facts, last, flush>>

uvars == <<tr, fc, ch>>
gvars == <<inv_objs, change>>

vars == <<ivars, svars, uvars, gvars>>

\* an optional list: Python's None, or a list
None == [none |-> TRUE, list |-> <<>>]

Some(l) == [none |-> FALSE, list |-> l]

\* no call of get_hosts made yet
NoCall ==
    [given |-> <<>>, pattern |-> <<>>, ignore_limits |-> FALSE,
     ignore_restrictions |-> FALSE, order |-> "None", hosts |-> <<>>, error |-> FALSE]

-----------------------------------------------------------------------------
(* Generic list helpers (Python list semantics).                           *)

Range(s) == {s[i] : i \in 1..Len(s)}

InList(x, s) == \E i \in 1..Len(s) : s[i] = x

Filter(s, Keep(_)) == SelectSeq(s, Keep)

\* [x for x in hosts if x not in seen and not seen.add(x)]
RECURSIVE DedupFrom(_, _)
DedupFrom(s, seen) ==
    IF s = <<>> THEN <<>>
    ELSE IF Head(s) \in seen THEN DedupFrom(Tail(s), seen)
    ELSE <<Head(s)>> \o DedupFrom(Tail(s), seen \cup {Head(s)})

\* all duplicate-free lists over S of length at most n
RECURSIVE ListsUpTo(_, _)
ListsUpTo(S, n) ==
    IF n = 0 THEN {<<>>}
    ELSE LET shorter == ListsUpTo(S, n - 1)
         IN  shorter \cup {Append(s, x) : s \in shorter, x \in S}

DistinctLists(S, n) ==
    {s \in ListsUpTo(S, n) : \A i, j \in 1..Len(s) : i # j => s[i] # s[j]}

\* F of the value x, x computed once
Bind(x, F(_)) == CHOOSE y \in {F(v) : v \in {x}} : TRUE

\* the elements of the list u that are in S, in u's order
Subsequence(u, S) == Filter(u, LAMBDA x : x \in S)

-----------------------------------------------------------------------------
(* Names.                                                                  *)

\* the characters of each name of the universe
Chars(n) ==
    CASE n = "w1"        -> <<"w", "1">>
      [] n = "w*"        -> <<"w", "*">>
      [] n = "w"         -> <<"w">>
      [] n = "zz"        -> <<"z", "z">>
      [] n = "all"       -> <<"a", "l", "l">>
      [] n = "ungrouped" -> <<"u", "n", "g", "r", "o", "u", "p", "e", "d">>
      [] n = "h1"        -> <<"h", "1">>
      [] n = "h2"        -> <<"h", "2">>
      [] n = "h3"        -> <<"h", "3">>
      [] n = ""          -> <<>>
      [] n = "db"        -> <<"d", "b">>
      [] n = "db1"       -> <<"d", "b", "1">>
      [] n = "db2"       -> <<"d", "b", "2">>
      [] n = "db3"       -> <<"d", "b", "3">>
      [] n = "db4"       -> <<"d", "b", "4">>
      [] n = "db[1:3]"   -> <<"d", "b", "[", "1", ":", "3", "]">>
      [] n = "db[1-3]"   -> <<"d", "b", "[", "1", "-", "3", "]">>
      [] n = "db[0]"     -> <<"d", "b", "[", "0", "]">>
      [] n = "db[3]"     -> <<"d", "b", "[", "3", "]">>
      [] n = "db[-1]"    -> <<"d", "b", "[", "-", "1", "]">>
      [] n = "db[-3]"    -> <<"d", "b", "[", "-", "3", "]">>
      [] n = "db[1:]"    -> <<"d", "b", "[", "1", ":", "]">>
      [] n = "db[0:]"    -> <<"d", "b", "[", "0", ":", "]">>
      [] n = "db[2:0]"   -> <<"d", "b", "[", "2", ":", "0", "]">>
      [] n = "db[10:12]" -> <<"d", "b", "[", "1", "0", ":", "1", "2", "]">>
      [] n = "w:w1"      -> <<"w", ":", "w", "1">>
      [] n = "w1,zz"     -> <<"w", "1", ",", "z", "z">>
      [] n = "w:w1,zz"   -> <<"w", ":", "w", "1", ",", "z", "z">>

\* the names the table above spells
Names ==
    {"w1", "w*", "w", "zz", "all", "ungrouped", "h1", "h2", "h3", "", "db", "db1",
     "db2", "db3", "db4", "db[1:3]", "db[1-3]", "db[0]", "db[3]", "db[-1]", "db[-3]",
     "db[1:]", "db[0:]", "db[2:0]", "db[10:12]", "w:w1"}

\* the name a sequence of characters spells
NameOf(chars) == CHOOSE n \in Names : Chars(n) = chars

\* fnmatch.translate + re.match: "*" any run, "?" any one character, every
\* other character itself; the whole item must match
RECURSIVE fnmatch(_, _)
fnmatch(pat, item) ==
    IF pat = <<>> THEN item = <<>>
    ELSE IF Head(pat) = "*"
         THEN fnmatch(Tail(pat), item)
              \/ (item # <<>> /\ fnmatch(pat, Tail(item)))
    ELSE IF Head(pat) = "?"
         THEN item # <<>> /\ fnmatch(Tail(pat), Tail(item))
    ELSE item # <<>> /\ Head(item) = Head(pat) /\ fnmatch(Tail(pat), Tail(item))

\* any(special in pattern for special in ('.', '?', '*', '['))
HasSpecial(name) == \E i \in 1..Len(Chars(name)) : Chars(name)[i] \in {".", "?", "*", "["}

-----------------------------------------------------------------------------
(* Bounds of the resolver's inputs.                                        *)

\* hosts an inventory source may define, in the order it defines them
HostUniverse == <<"w1", "w*", "w">>

\* most hosts the explicit group holds
MaxGroupHosts == 2

\* number of get_hosts calls in one behaviour
MaxCalls == 2

\* the names a term is written with
TermNames == {"w", "w*", "w1", "all", "zz"}

Term(pfx, name) == [pfx |-> pfx, name |-> name]

\* patterns a caller writes with the terms a and b
Patterns(a, b) ==
    { <<Term("", a)>>,
      <<Term("", a), Term("", b)>>,
      <<Term("", a), Term("!", b)>>,   <<Term("!", b), Term("", a)>>,
      <<Term("", a), Term("&", b)>>,   <<Term("&", b), Term("", a)>>,
      <<Term("!", b)>>,                <<Term("&", b)>>,
      <<Term("!", a), Term("&", b), Term("", "all")>>,
      <<Term("", "all"), Term("&", b), Term("!", a)>> }

\* the hosts of the inventories the subscripted terms are resolved on
DbHosts == <<"db1", "db2", "db3", "db4">>

\* most hosts the group "db" holds
MaxDbGroup == 4

\* the terms written with a subscript, and the term without
SubTerms ==
    {"db", "db[1:3]", "db[1-3]", "db[0]", "db[3]", "db[-1]", "db[-3]", "db[1:]",
     "db[0:]", "db[2:0]", "db[10:12]"}

\* patterns a caller writes with the term n
SubPatterns(n) == { <<Term("", n)>>, <<Term("", "all"), Term("!", n)>> }

-----------------------------------------------------------------------------
(* InventoryData as the resolver reads it.                                 *)

\* iteration order of InventoryData.groups
GroupOrder == <<"all", "ungrouped", "w", "db">>

group_names == Subsequence(GroupOrder, DOMAIN inv_groups)

\* the inventory built from the hosts hs and the host list of the explicit
\* group "w" (None: the group is not defined): "all" holds every host and
\* "ungrouped" the hosts that are in no other group
MakeGroups(hs, w) ==
    LET inW(h) == InList(h, w.list)
        base   == [g \in {"all", "ungrouped"} |->
                      IF g = "all" THEN hs ELSE Filter(hs, LAMBDA h : ~inW(h))]
    IN  IF w.none THEN base
        ELSE [g \in {"all", "ungrouped", "w"} |-> IF g = "w" THEN w.list ELSE base[g]]

\* the same with the explicit group "db" and its host list
MakeDbGroups(hs, db) ==
    [g \in {"all", "ungrouped", "db"} |->
        IF g = "all" THEN hs
        ELSE IF g = "db" THEN db
        ELSE Filter(hs, LAMBDA h : ~InList(h, db))]

-----------------------------------------------------------------------------
(* InventoryManager: pattern resolution.                                   *)

IsExclude(p)      == p.pfx = "!"
IsIntersection(p) == p.pfx = "&"
IsRegular(p)      == p.pfx = "" /\ p.name # ""

\* order_patterns: regular terms, then the & terms, then the ! terms;
\* "all" stands in when there is no regular term
order_patterns_noswap(patterns) ==
    LET pattern_regular == Filter(patterns, IsRegular)
    IN  (IF pattern_regular = <<>> THEN <<Term("", "all")>> ELSE pattern_regular)
        \o Filter(patterns, IsExclude) \o Filter(patterns, IsIntersection)

order_patterns_input_order(patterns) ==
    IF Filter(patterns, IsRegular) = <<>> THEN <<Term("", "all")>> \o patterns
    ELSE patterns

order_patterns(patterns) ==
    LET pattern_regular == Filter(patterns, IsRegular)
    IN  (IF pattern_regular = <<>> THEN <<Term("", "all")>> ELSE pattern_regular)
        \o Filter(patterns, IsIntersection) \o Filter(patterns, IsExclude)

\* _match_list: the items the glob pattern_str matches, in the items' order
match_list(items, pattern_str) ==
    Filter(items, LAMBDA item : fnmatch(Chars(pattern_str), Chars(item)))

RECURSIVE GroupHosts(_)
GroupHosts(names) ==
    IF names = <<>> THEN <<>> ELSE inv_groups[Head(names)] \o GroupHosts(Tail(names))

\* _enumerate_matches: the hosts of every group whose name matches, then,
\* when no group matched or the pattern is a glob, the hosts whose name matches
enumerate_matches(pattern) ==
    Bind(match_list(group_names, pattern), LAMBDA matching_groups :
        GroupHosts(matching_groups)
        \o (IF matching_groups = <<>> \/ HasSpecial(pattern)
            THEN match_list(inv_hosts, pattern) ELSE <<>>))

\* the decimal digits, and int() of a run of them
Digits == <<"0", "1", "2", "3", "4", "5", "6", "7", "8", "9">>

IsDigits(cs) == cs # <<>> /\ \A i \in 1..Len(cs) : InList(cs[i], Digits)

RECURSIVE int(_)
int(cs) ==
    IF cs = <<>> THEN 0
    ELSE int(SubSeq(cs, 1, Len(cs) - 1)) * 10
         + ((CHOOSE d \in 1..Len(Digits) : Digits[d] = cs[Len(cs)]) - 1)

\* a subscript: Python's None, or the tuple (start, end) whose end may be None
NoSubscript == [none |-> TRUE, start |-> 0, has_end |-> FALSE, end |-> 0]

Subscript(start, has_end, end) ==
    [none |-> FALSE, start |-> start, has_end |-> has_end, end |-> end]

\* the text between the brackets, as pattern_with_subscript reads it: a
\* single number with an optional minus sign, or "x:y", "x-y", "x:", "x-"
subscript_of(body) ==
    IF IsDigits(body) THEN Subscript(int(body), FALSE, 0)
    ELSE IF body # <<>> /\ Head(body) = "-" /\ IsDigits(Tail(body))
    THEN Subscript(0 - int(Tail(body)), FALSE, 0)
    ELSE LET seps == {i \in 2..Len(body) :
                        /\ body[i] \in {":", "-"}
                        /\ IsDigits(SubSeq(body, 1, i - 1))
                        /\ i = Len(body) \/ IsDigits(SubSeq(body, i + 1, Len(body)))}
         IN  IF seps = {} THEN NoSubscript
             ELSE LET i == CHOOSE i \in seps : TRUE
                  IN  Subscript(int(SubSeq(body, 1, i - 1)), TRUE,
                                IF i = Len(body) THEN -1
                                ELSE int(SubSeq(body, i + 1, Len(body))))

\* _split_subscript with a closing bracket dropped from the accepted texts
split_subscript_no_negative(pattern) ==
    LET cs    == Chars(pattern)
        opens == {i \in 2..(Len(cs) - 1) : cs[i] = "[" /\ cs[Len(cs)] = "]"}
        open  == IF opens = {} THEN 0 ELSE CHOOSE i \in opens : \A j \in opens : j <= i
        body  == SubSeq(cs, open + 1, Len(cs) - 1)
    IN  IF open = 0 \/ cs[1] = "~" \/ subscript_of(body).none \/ Head(body) = "-"
        THEN [expr |-> pattern, subscript |-> NoSubscript]
        ELSE [expr |-> NameOf(SubSeq(cs, 1, open - 1)), subscript |-> subscript_of(body)]

\* _split_subscript: the expression without its subscript, and the subscript
\* (the subscript text holds no "[", so the bracket that opens it is the last)
split_subscript(pattern) ==
    LET cs    == Chars(pattern)
        opens == {i \in 2..(Len(cs) - 1) : cs[i] = "[" /\ cs[Len(cs)] = "]"}
        open  == IF opens = {} THEN 0 ELSE CHOOSE i \in opens : \A j \in opens : j <= i
        body  == SubSeq(cs, open + 1, Len(cs) - 1)
    IN  IF open = 0 \/ cs[1] = "~" \/ subscript_of(body).none
        THEN [expr |-> pattern, subscript |-> NoSubscript]
        ELSE [expr |-> NameOf(SubSeq(cs, 1, open - 1)), subscript |-> subscript_of(body)]

\* Python's hosts[start:stop] for start >= 0
Slice(hosts, start, stop) ==
    SubSeq(hosts, start + 1, IF stop < Len(hosts) THEN stop ELSE Len(hosts))

\* _apply_subscript: the selected hosts, or IndexError
apply_subscript_one_based(hosts, subscript) ==
    IF hosts = <<>> \/ subscript.none THEN [hosts |-> hosts, error |-> FALSE]
    ELSE IF subscript.has_end /\ subscript.end # 0
    THEN [hosts |-> Slice(hosts, subscript.start - 1,
                          IF subscript.end = -1 THEN Len(hosts) ELSE subscript.end),
          error |-> FALSE]
    ELSE IF subscript.start > Len(hosts) \/ subscript.start < 1
    THEN [hosts |-> <<>>, error |-> TRUE]
    ELSE [hosts |-> <<hosts[subscript.start]>>, error |-> FALSE]

apply_subscript(hosts, subscript) ==
    IF hosts = <<>> \/ subscript.none THEN [hosts |-> hosts, error |-> FALSE]
    ELSE IF subscript.has_end /\ subscript.end # 0
    THEN [hosts |-> Slice(hosts, subscript.start,
                          (IF subscript.end = -1 THEN Len(hosts) - 1 ELSE subscript.end) + 1),
          error |-> FALSE]
    ELSE IF subscript.start >= Len(hosts) \/ subscript.start < 0 - Len(hosts)
    THEN [hosts |-> <<>>, error |-> TRUE]
    ELSE [hosts |-> <<hosts[IF subscript.start >= 0 THEN subscript.start + 1
                            ELSE Len(hosts) + subscript.start + 1]>>,
          error |-> FALSE]

\* _match_one_pattern: strips the prefix, then answers from _pattern_cache or
\* splits the subscript, enumerates, applies the subscript and stores.
\* Returns the match list and the cache afterwards; error: the subscript
\* raised IndexError and AnsibleError is raised, nothing stored.
match_one_pattern(p, cache) ==
    IF p.name \in DOMAIN cache
    THEN [hosts |-> cache[p.name], cache |-> cache, error |-> FALSE]
    ELSE Bind(split_subscript(p.name), LAMBDA split :
         Bind(apply_subscript(enumerate_matches(split.expr), split.subscript), LAMBDA r :
             [hosts |-> r.hosts,
              cache |-> IF r.error THEN cache
                        ELSE [k \in DOMAIN cache \cup {p.name} |->
                                 IF k = p.name THEN r.hosts ELSE cache[k]],
              error |-> r.error]))

\* "p in self._inventory.hosts": the whole text of the term, prefix included,
\* is the name of a host (no host name of the universe starts with & or !)
is_plain_host_never(p) == FALSE

is_plain_host(p) == p.pfx = "" /\ InList(p.name, inv_hosts)

\* the three branches of the loop body of _evaluate_patterns
apply_term_nodedup(p, hosts, that) ==
    IF IsExclude(p) THEN Filter(hosts, LAMBDA h : h \notin Range(that))
    ELSE IF IsIntersection(p) THEN Filter(hosts, LAMBDA h : h \in Range(that))
    ELSE hosts \o that

apply_term(p, hosts, that) ==
    IF IsExclude(p) THEN Filter(hosts, LAMBDA h : h \notin Range(that))
    ELSE IF IsIntersection(p) THEN Filter(hosts, LAMBDA h : h \in Range(that))
    ELSE hosts \o Filter(that, LAMBDA h : h \notin Range(hosts))

RECURSIVE evaluate_loop(_, _, _)
evaluate_loop(ps, hosts, cache) ==
    IF ps = <<>> THEN [hosts |-> hosts, cache |-> cache, error |-> FALSE]
    ELSE IF is_plain_host(Head(ps))
         THEN evaluate_loop(Tail(ps), Append(hosts, Head(ps).name), cache)
         ELSE Bind(match_one_pattern(Head(ps), cache), LAMBDA m :
                  IF m.error THEN [hosts |-> <<>>, cache |-> m.cache, error |-> TRUE]
                  ELSE evaluate_loop(Tail(ps), apply_term(Head(ps), hosts, m.hosts),
                                     m.cache))

\* _evaluate_patterns
evaluate_patterns(patterns, cache) ==
    Bind(order_patterns(patterns), LAMBDA ps : evaluate_loop(ps, <<>>, cache))

\* Python truth of an optional list: neither None nor empty
Truthy(x) == ~x.none /\ x.list # <<>>

\* a pattern as a caller gives it: one string, or a list of strings
Str(n) == [islist |-> FALSE, items |-> <<Chars(n)>>]

List(ns) == [islist |-> TRUE, items |-> [i \in 1..Len(ns) |-> Chars(ns[i])]]

\* the string a term is written as
TermText(t) == (IF t.pfx = "" THEN <<>> ELSE <<t.pfx>>) \o Chars(t.name)

\* the term a separator-free string is: its modifier and the rest
ToTerm(text) ==
    IF text # <<>> /\ Head(text) \in {"!", "&"}
    THEN Term(Head(text), NameOf(Tail(text)))
    ELSE Term("", NameOf(text))

\* a list of terms as the list of strings a caller gives
ListOf(terms) == [islist |-> TRUE, items |-> [i \in 1..Len(terms) |-> TermText(terms[i])]]

\* sep.join(items)
RECURSIVE Join(_, _)
Join(items, sep) ==
    IF items = <<>> THEN <<>>
    ELSE IF Len(items) = 1 THEN items[1]
    ELSE items[1] \o sep \o Join(Tail(items), sep)

\* to_native of a list of strings: Python's text of the list
to_native(items) ==
    <<"[">> \o Join([i \in 1..Len(items) |-> <<"'">> \o items[i] \o <<"'">>], <<",", " ">>)
            \o <<"]">>

\* re.split on commas: the pieces between the commas of text, cur being the
\* piece begun
RECURSIVE split_commas(_, _)
split_commas(text, cur) ==
    IF text = <<>> THEN <<cur>>
    ELSE IF Head(text) = "," THEN <<cur>> \o split_commas(Tail(text), <<>>)
    ELSE split_commas(Tail(text), Append(cur, Head(text)))

\* re.findall of runs of characters other than ":" and of whole bracketed
\* expressions: the pieces between the colons of text that stand outside
\* brackets; depth: inside a bracketed expression
RECURSIVE split_colons(_, _, _)
split_colons(text, cur, depth) ==
    IF text = <<>> THEN (IF cur = <<>> THEN <<>> ELSE <<cur>>)
    ELSE IF Head(text) = ":" /\ depth = 0
         THEN (IF cur = <<>> THEN <<>> ELSE <<cur>>) \o split_colons(Tail(text), <<>>, 0)
    ELSE split_colons(Tail(text), Append(cur, Head(text)),
                      IF Head(text) = "[" THEN 1 ELSE IF Head(text) = "]" THEN 0 ELSE depth)

\* split_host_pattern of one string: on commas when it has one, else on the
\* colons outside brackets (parse_address accepts no text of the universe
\* that has such a colon, none being followed by a port number)
split_string(text) ==
    IF \E i \in 1..Len(text) : text[i] = "," THEN split_commas(text, <<>>)
    ELSE split_colons(text, <<>>, 0)

RECURSIVE split_strings(_)
split_strings(items) ==
    IF items = <<>> THEN <<>> ELSE split_string(Head(items)) \o split_strings(Tail(items))

\* split_host_pattern: the terms of a pattern given as a string or a list
split_host_pattern(pattern) ==
    Bind(split_strings(pattern.items), LAMBDA pieces :
        [i \in 1..Len(pieces) |-> ToTerm(pieces[i])])

\* the code points of the characters names are written with
Ord(c) ==
    CASE c = "*" -> 42 [] c = "0" -> 48 [] c = "1" -> 49 [] c = "2" -> 50
      [] c = "3" -> 51 [] c = "4" -> 52 [] c = "b" -> 98 [] c = "d" -> 100
      [] c = "h" -> 104 [] c = "w" -> 119 [] c = "z" -> 122

\* a < b for strings
RECURSIVE StrLess(_, _)
StrLess(a, b) ==
    IF b = <<>> THEN FALSE
    ELSE IF a = <<>> THEN TRUE
    ELSE IF Head(a) = Head(b) THEN StrLess(Tail(a), Tail(b))
    ELSE Ord(Head(a)) < Ord(Head(b))

\* the order argument applied to the list get_hosts found or stored
apply_order(hosts, order) ==
    IF order = "sorted" THEN SortSeq(hosts, LAMBDA a, b : StrLess(Chars(a), Chars(b)))
    ELSE IF order = "reverse_sorted"
         THEN SortSeq(hosts, LAMBDA a, b : StrLess(Chars(b), Chars(a)))
    ELSE hosts

\* sorted(hosts, reverse=True) on Host objects, for order 'reverse_inventory':
\* the class Host gives its objects no order, so a list of two hosts or more
\* comes back in an order the interpreter picks, or the comparison raises
\* TypeError
sorted_host_objects(hosts) ==
    IF Len(hosts) <= 1 THEN {[hosts |-> hosts, error |-> FALSE]}
    ELSE {[hosts |-> p, error |-> FALSE] :
             p \in {q \in DistinctLists(Range(hosts), Len(hosts)) : Len(q) = Len(hosts)}}
         \cup {[hosts |-> <<>>, error |-> TRUE]}

\* what get_hosts may return for the order argument when the list found or
\* stored is hosts
order_outcomes(hosts, order) ==
    IF order = "reverse_inventory" THEN sorted_host_objects(hosts)
    ELSE {[hosts |-> apply_order(hosts, order), error |-> FALSE]}

\* the key of _hosts_patterns_cache: the pattern's text, a list's strings
\* joined with ":", then ":" and the text of the active subset, then ":" and
\* the text of the active restriction
pattern_hash(pattern, ignore_limits, ignore_restrictions) ==
    (IF pattern.islist THEN Join(pattern.items, <<":">>) ELSE pattern.items[1])
    \o (IF ~ignore_limits /\ Truthy(subset)
        THEN <<":">> \o to_native([i \in 1..Len(subset.list) |-> TermText(subset.list[i])])
        ELSE <<>>)
    \o (IF ~ignore_restrictions /\ Truthy(restriction)
        THEN <<":">> \o to_native([i \in 1..Len(restriction.list) |-> Chars(restriction.list[i])])
        ELSE <<>>)

\* the last statement of the cache-miss branch of get_hosts
final_dedup_none(hosts) == hosts

final_dedup(hosts) == DedupFrom(hosts, {})

\* the cache-miss branch of get_hosts: the list to store, and _pattern_cache
\* afterwards.  e1 is the evaluation of the pattern, e2 that of the subset
\* (e1 itself when no subset applies, so that its filter keeps every host);
\* the two list comprehensions filter e1's hosts one after the other.
\* error: an evaluation raised AnsibleError.
resolve(pattern, ignore_limits, ignore_restrictions) ==
    Bind(evaluate_patterns(pattern, pattern_cache), LAMBDA e1 :
        Bind(IF ~e1.error /\ ~ignore_limits /\ Truthy(subset)
             THEN evaluate_patterns(subset.list, e1.cache)
             ELSE e1, LAMBDA e2 :
            [hosts |-> IF e2.error THEN <<>>
                       ELSE final_dedup(
                                Filter(e1.hosts, LAMBDA h :
                                    /\ h \in Range(e2.hosts)
                                    /\ (~ignore_restrictions /\ Truthy(restriction))
                                          => h \in Range(restriction.list))),
             cache |-> e2.cache,
             error |-> e2.error]))

\* get_hosts(pattern, ignore_limits, ignore_restrictions, order): the list it
\* returns, and the two caches as it leaves them; error: it raised
get_hosts(pattern, ignore_limits, ignore_restrictions, order) ==
    Bind(pattern_hash(pattern, ignore_limits, ignore_restrictions), LAMBDA key :
        IF key \in DOMAIN hosts_patterns_cache
        THEN [hosts |-> apply_order(hosts_patterns_cache[key], order),
              hosts_patterns_cache |-> hosts_patterns_cache,
              pattern_cache |-> pattern_cache,
              error |-> FALSE]
        ELSE Bind(resolve(split_host_pattern(pattern), ignore_limits, ignore_restrictions),
                  LAMBDA r :
                 [hosts |-> apply_order(r.hosts, order),
                  hosts_patterns_cache |->
                      IF r.error THEN hosts_patterns_cache
                      ELSE [k \in DOMAIN hosts_patterns_cache \cup {key} |->
                               IF k = key THEN r.hosts ELSE hosts_patterns_cache[k]],
                  pattern_cache |-> r.cache,
                  error |-> r.error]))

-----------------------------------------------------------------------------
(* Plays, tasks and results.                                               *)

\* worker slots of the pool (forks)
NumWorkers == 2

\* values a task may return as the fact it sets
FactValues == {"a", "b"}

\* C.ERROR_ON_MISSING_HANDLER, a setting of the run
ERROR_ON_MISSING_HANDLER == play.error_on_missing_handler

\* a task, or a handler: what the strategy reads of it, and the statuses its
\* module may report; parents: the names of the includes up its _parent chain;
\* partials: the kinds of non-final results its worker sends ("retry", "item")
BaseTask(name) ==
    [name |-> name, meta |-> "", run_once |-> FALSE, ignore_errors |-> FALSE,
     notify |-> <<>>, listen |-> {}, facts |-> FALSE, set_stats |-> FALSE,
     include |-> FALSE, parents |-> {}, partials |-> {}, outcomes |-> {"ok"}]

MetaTask(action) == [BaseTask("meta") EXCEPT !.meta = action]

BasePlay ==
    [hosts |-> <<Term("", "all")>>, tasks |-> <<>>, rescue |-> <<>>,
     handlers |-> <<>>, force_handlers |-> FALSE, error_on_missing_handler |-> TRUE]

TwoHosts == <<Term("", "h1"), Term("", "h2")>>

\* two hosts, two notifying tasks and a flush_handlers, a plain handler and a
\* run_once handler that listens to the same topic
PlayNotify ==
    [BasePlay EXCEPT
       !.hosts = TwoHosts,
       !.tasks = << [BaseTask("t1") EXCEPT !.notify = <<"restart", "restart">>,
                                           !.outcomes = {"ok", "changed", "failed"}],
                    [BaseTask("t2") EXCEPT !.notify = <<"restart">>,
                                           !.outcomes = {"changed", "failed"}],
                    MetaTask("flush_handlers") >>,
       !.handlers = << [BaseTask("restart") EXCEPT !.outcomes = {"ok", "failed"}],
                       [BaseTask("once") EXCEPT !.run_once = TRUE,
                                                !.listen = {"restart"}] >>]

\* three hosts, a run_once task that returns a fact and custom statistics
PlayRunOnce ==
    [BasePlay EXCEPT
       !.tasks = << [BaseTask("gather") EXCEPT
                        !.run_once = TRUE, !.facts = TRUE, !.set_stats = TRUE,
                        !.outcomes = {"ok", "changed", "failed", "unreachable"}],
                    BaseTask("t2") >>]

\* three hosts, a task that may fail or lose its host, clear_host_errors
PlayErrors ==
    [BasePlay EXCEPT
       !.tasks = << [BaseTask("t1") EXCEPT
                        !.outcomes = {"ok", "failed", "unreachable", "skipped"}],
                    MetaTask("clear_host_errors"),
                    BaseTask("t2") >>]

\* two hosts, a failing task in a block that has a rescue section, end_play
PlayRescue ==
    [BasePlay EXCEPT
       !.hosts = TwoHosts,
       !.tasks = << [BaseTask("t1") EXCEPT !.outcomes = {"ok", "failed"}],
                    [BaseTask("t2") EXCEPT !.ignore_errors = TRUE,
                                           !.outcomes = {"failed"}],
                    MetaTask("end_play"),
                    BaseTask("t3") >>,
       !.rescue = << BaseTask("r1") >>]

\* three hosts, a task that may lose its host, then a run_once task that may
\* fail
PlayOnceFail ==
    [BasePlay EXCEPT
       !.tasks = << [BaseTask("t1") EXCEPT !.outcomes = {"ok", "unreachable"}],
                    [BaseTask("once") EXCEPT !.run_once = TRUE,
                                             !.outcomes = {"ok", "failed"}] >>]

\* two hosts, a task with ignore_errors and one without whose results carry
\* one status key or two, and a handler that is an include
PlayIgnore ==
    [BasePlay EXCEPT
       !.hosts = TwoHosts,
       !.tasks = << [BaseTask("t1") EXCEPT
                        !.ignore_errors = TRUE,
                        !.outcomes = {"failed", "failed+changed", "failed+unreachable",
                                      "unreachable"}],
                    [BaseTask("t2") EXCEPT
                        !.notify = <<"inc">>,
                        !.outcomes = {"changed", "failed+unreachable",
                                      "unreachable+changed"}] >>,
       !.handlers = << [BaseTask("inc") EXCEPT !.include = TRUE] >>]

\* three hosts for two worker slots, a notifying task, a handler that
\* notifies a handler the play does not have
PlayWait ==
    [BasePlay EXCEPT
       !.tasks = << [BaseTask("t1") EXCEPT !.notify = <<"restart">>,
                                           !.outcomes = {"changed"}] >>,
       !.handlers = << [BaseTask("restart") EXCEPT !.notify = <<"gone">>,
                                                   !.outcomes = {"ok", "changed"}] >>]

\* two hosts, two tasks that notify handlers by name, by the name of the
\* include that brought them and by a topic they listen to
PlayParents ==
    [BasePlay EXCEPT
       !.hosts = TwoHosts,
       !.tasks = << [BaseTask("t1") EXCEPT
                        !.notify = <<"included", "topic", "child1", "included">>,
                        !.outcomes = {"ok", "changed"}],
                    [BaseTask("t2") EXCEPT !.notify = <<"topic", "included">>,
                                           !.outcomes = {"changed"}] >>,
       !.handlers = << [BaseTask("child1") EXCEPT !.parents = {"included"},
                                                  !.listen = {"topic"}],
                       [BaseTask("child2") EXCEPT !.parents = {"included", "outer"}] >>]

\* two hosts, a task that notifies a handler, a name no handler answers to
\* and another handler
PlayMissing ==
    [BasePlay EXCEPT
       !.hosts = TwoHosts,
       !.tasks = << [BaseTask("t1") EXCEPT !.notify = <<"restart", "gone", "late">>,
                                           !.outcomes = {"ok", "changed"}] >>,
       !.handlers = << BaseTask("restart"), BaseTask("late") >>]

\* two hosts, a task with retries and a loop
PlayLoop ==
    [BasePlay EXCEPT
       !.hosts = TwoHosts,
       !.tasks = << [BaseTask("t1") EXCEPT !.partials = {"retry", "item"},
                                           !.outcomes = {"ok", "failed"}] >>]

Plays ==
    { PlayNotify, [PlayNotify EXCEPT !.force_handlers = TRUE],
      PlayRunOnce, PlayErrors, PlayRescue, PlayOnceFail, PlayIgnore, PlayParents,
      PlayMissing, [PlayMissing EXCEPT !.error_on_missing_handler = FALSE], PlayLoop }

\* a reference to a task of the play: kind is "task", "rescue" or "handler"
TaskRef(kind, idx) == [kind |-> kind, idx |-> idx]

NoTask == TaskRef("none", 0)

TaskOf(ref) ==
    CASE ref.kind = "task"    -> play.tasks[ref.idx]
      [] ref.kind = "rescue"  -> play.rescue[ref.idx]
      [] ref.kind = "handler" -> play.handlers[ref.idx]

\* the result payload of a module that reports status: the status keys it
\* carries with a true value, and its results list (empty: it has none, or
\* an empty one); partial: "retry" with _ansible_retry, "item" with
\* _ansible_item_result, "none" with neither
Payload(status, f, s) ==
    [failed |-> status \in {"failed", "failed+changed", "failed+unreachable"},
     unreachable |-> status \in {"unreachable", "failed+unreachable",
                                 "unreachable+changed"},
     skipped |-> status = "skipped",
     changed |-> status \in {"changed", "failed+changed", "unreachable+changed"},
     facts |-> f, stats |-> s, results |-> <<>>, partial |-> "none"]

\* the payloads a worker may send for the task t
Payloads(t) ==
    { Payload(o, f, s) :
        o \in t.outcomes,
        f \in (IF t.facts THEN FactValues ELSE {""}),
        s \in (IF t.set_stats THEN {"s"} ELSE {""}) }

\* the non-final results a worker may send for the task t
Partials(t) ==
    { [Payload(o, "", "") EXCEPT !.partial = kind] : o \in t.outcomes, kind \in t.partials }

is_final_always(p) == TRUE

\* a result that is no notification of a retry or of a loop item
is_final(p) == p.partial = "none"

\* an element of a results list: a dict with its skipped key, or something
\* that is not a dict (a squashed result)
Item(dict, skipped) == [dict |-> dict, skipped |-> skipped]

is_skipped_any(p) ==
    IF p.results # <<>> /\ \E i \in 1..Len(p.results) :
                               p.results[i].dict /\ p.results[i].skipped
    THEN TRUE
    ELSE p.skipped

\* TaskResult.is_skipped
is_skipped(p) ==
    IF p.results # <<>> /\ \A i \in 1..Len(p.results) :
                               p.results[i].dict /\ p.results[i].skipped
    THEN TRUE
    ELSE p.skipped

\* TaskResult.is_failed, is_unreachable, is_changed (a payload without a
\* results list: _check_key reads the key itself)
is_failed(p)      == p.failed
is_unreachable(p) == p.unreachable
is_changed(p)     == p.changed

-----------------------------------------------------------------------------
(* PlayIterator: one HostState [cur, run_state, fail_state] per host.      *)

\* the run state get_next_task_for_host(peek=True) reports
effective_run_state(st) ==
    IF st.run_state = "TASKS" /\ st.cur > Len(play.tasks) THEN "COMPLETE"
    ELSE IF st.run_state = "RESCUE" /\ st.cur > Len(play.rescue) THEN "COMPLETE"
    ELSE st.run_state

\* the task get_next_task_for_host(peek=True) reports
next_task(st) ==
    IF effective_run_state(st) = "COMPLETE" THEN NoTask
    ELSE TaskRef(IF st.run_state = "TASKS" THEN "task" ELSE "rescue", st.cur)

\* the state get_next_task_for_host leaves
advance(st) ==
    IF effective_run_state(st) = "COMPLETE" THEN [st EXCEPT !.run_state = "COMPLETE"]
    ELSE [st EXCEPT !.cur = @ + 1]

\* mark_host_failed: toward RESCUE if the block has one, else failed-COMPLETE
mark_host_failed(st) ==
    IF st.run_state = "TASKS" /\ play.rescue # <<>>
    THEN [cur |-> 1, run_state |-> "RESCUE", fail_state |-> "HANDLED"]
    ELSE [st EXCEPT !.run_state = "COMPLETE", !.fail_state = "FAILED"]

\* iterator.is_failed
iterator_is_failed(h) == host_states[h].fail_state = "FAILED"

\* Handler.has_triggered: nothing of the strategy flags a handler for a host
has_triggered(handler, h) == FALSE

-----------------------------------------------------------------------------
(* StrategyBase helpers.                                                   *)

\* self._inventory.get_hosts(iterator._play.hosts)
play_hosts == get_hosts(ListOf(play.hosts), FALSE, FALSE, "None")

\* get_hosts_remaining
get_hosts_remaining_failed_only ==
    Filter(play_hosts.hosts, LAMBDA h : h \notin failed_hosts)

get_hosts_remaining ==
    Filter(play_hosts.hosts, LAMBDA h : h \notin failed_hosts /\ h \notin unreachable_hosts)

\* get_hosts_left
get_hosts_left == Filter(play_hosts.hosts, LAMBDA h : h \notin unreachable_hosts)

\* get_task_hosts
get_task_hosts(task_host, task) ==
    IF task.run_once
    THEN Filter(play_hosts.hosts, LAMBDA h : h \notin unreachable_hosts)
    ELSE <<task_host>>

\* the hosts a failed result without ignore_errors marks failed in the iterator
fail_targets_all(original_host, task) ==
    {h \in Range(play_hosts.hosts) : h \notin unreachable_hosts}

fail_targets_single(original_host, task) == {original_host}

fail_targets(original_host, task) ==
    IF task.run_once
    THEN {h \in Range(play_hosts.hosts) : h \notin unreachable_hosts}
    ELSE {original_host}

\* the hosts whose ok / changed counters a final result increments
ok_stat_hosts(original_host, task) == {original_host}

\* the hosts that receive the facts of a result (no delegate_facts)
fact_hosts_single(original_host, task) == <<original_host>>

fact_hosts(original_host, task) == get_task_hosts(original_host, task)

\* the hosts whose custom statistics a result with per_host data sets
custom_stat_hosts_single(original_host, task) == <<original_host>>

custom_stat_hosts(original_host, task) == get_task_hosts(original_host, task)

\* the caches after the calls of get_hosts an operation made
TouchCaches(called) ==
    /\ hosts_patterns_cache' =
           IF called THEN play_hosts.hosts_patterns_cache ELSE hosts_patterns_cache
    /\ pattern_cache' = IF called THEN play_hosts.pattern_cache ELSE pattern_cache

Incr(st, key, hs) ==
    [h \in DOMAIN st |-> IF h \in hs THEN [st[h] EXCEPT ![key] = @ + 1] ELSE st[h]]

\* search_handler_blocks_by_name: the first handler of that name, 0 if none
search_handler_blocks_by_name(handler_name) ==
    LET hit == {i \in 1..Len(play.handlers) : play.handlers[i].name = handler_name}
    IN  IF hit = {} THEN 0 ELSE CHOOSE i \in hit : \A j \in hit : i <= j

\* self._listening_handlers[handler_name]
listening_handlers(handler_name) ==
    {i \in 1..Len(play.handlers) : handler_name \in play.handlers[i].listen}

\* "if original_host not in ...: ....append(original_host)"
ledger_append_always(l, original_host) == Append(l, original_host)

ledger_append(l, original_host) ==
    IF InList(original_host, l) THEN l ELSE Append(l, original_host)

\* parent_handler_match: an include up the _parent chain of the handler has
\* that name
parent_handler_match(target_handler, handler_name) ==
    handler_name \in play.handlers[target_handler].parents

\* the handlers the name reaches: the first of that name, or when there is
\* none those with a parent of that name
named_handlers(handler_name) ==
    IF search_handler_blocks_by_name(handler_name) # 0
    THEN {search_handler_blocks_by_name(handler_name)}
    ELSE {i \in 1..Len(play.handlers) : parent_handler_match(i, handler_name)}

notify_handler_listen_always(ledger, handler_name, original_host) ==
    [i \in DOMAIN ledger |->
        IF i \in listening_handlers(handler_name)
        THEN Append(IF i \in named_handlers(handler_name)
                    THEN ledger_append(ledger[i], original_host) ELSE ledger[i],
                    original_host)
        ELSE IF i \in named_handlers(handler_name)
             THEN ledger_append(ledger[i], original_host) ELSE ledger[i]]

\* one handler_name of _ansible_notify: the ledger afterwards
notify_handler(ledger, handler_name, original_host) ==
    LET named  == named_handlers(handler_name)
        listen == listening_handlers(handler_name)
    IN  [i \in DOMAIN ledger |->
            LET l1 == IF i \in named THEN ledger_append(ledger[i], original_host)
                      ELSE ledger[i]
            IN  IF i \in listen THEN ledger_append(l1, original_host) ELSE l1]

handler_found(handler_name) ==
    named_handlers(handler_name) # {} \/ listening_handlers(handler_name) # {}

RECURSIVE notify_handlers_stop_at_missing(_, _, _)
notify_handlers_stop_at_missing(ledger, names, original_host) ==
    IF names = <<>> THEN ledger
    ELSE IF ~handler_found(Head(names)) THEN ledger
    ELSE notify_handlers_stop_at_missing(notify_handler(ledger, Head(names), original_host),
                                         Tail(names), original_host)

\* the loop over the names of _ansible_notify: the ledger when it ends or
\* raises
RECURSIVE notify_handlers(_, _, _)
notify_handlers(ledger, names, original_host) ==
    IF names = <<>> THEN ledger
    ELSE IF ~handler_found(Head(names)) /\ ERROR_ON_MISSING_HANDLER THEN ledger
    ELSE notify_handlers(notify_handler(ledger, Head(names), original_host),
                         Tail(names), original_host)

-----------------------------------------------------------------------------
(* The driver, the workers and the reader thread.                          *)

NoJob == [host |-> "", task |-> NoTask]

\* the results of TaskQueueManager
RUN_OK == 0

RUN_ERROR == 1

RUN_FAILED_HOSTS == 2

RUN_UNREACHABLE_HOSTS == 4

RUN_FAILED_BREAK_PLAY == 8

\* a | b of two results
RECURSIVE BitOr(_, _)
BitOr(a, b) ==
    IF a = 0 THEN b
    ELSE IF b = 0 THEN a
    ELSE 2 * BitOr(a \div 2, b \div 2) + (IF a % 2 = 1 \/ b % 2 = 1 THEN 1 ELSE 0)

\* iterator.get_failed_hosts
get_failed_hosts == {h \in DOMAIN host_states : iterator_is_failed(h)}

\* the end of run(): the result with the handlers' outcome if that is not
\* RUN_OK, else by the hosts that failed or were lost before or during the
\* handlers
exit_status_failed_first(result, handler_result, failed, unreachable) ==
    LET r == IF handler_result = "False" THEN BitOr(result, RUN_ERROR) ELSE result
    IN  IF r # RUN_OK THEN r
        ELSE IF failed # {} THEN RUN_FAILED_HOSTS
        ELSE IF unreachable # {} THEN RUN_UNREACHABLE_HOSTS
        ELSE RUN_OK

exit_status(result, handler_result, failed, unreachable) ==
    LET r == IF handler_result = "False" THEN BitOr(result, RUN_ERROR) ELSE result
    IN  IF r # RUN_OK THEN r
        ELSE IF unreachable # {} THEN RUN_UNREACHABLE_HOSTS
        ELSE IF failed # {} THEN RUN_FAILED_HOSTS
        ELSE RUN_OK

\* run_handlers returns handler_result: to run(), which returns its status, or
\* to _execute_meta, which goes on with the dispatch loop
run_handlers_return(handler_result) ==
    IF drv.caller = "run"
    THEN [drv EXCEPT !.pc = "done", !.handler_result = handler_result,
                     !.rc = exit_status(drv.result, handler_result,
                                        drv.failed_before \cup get_failed_hosts,
                                        drv.unreachable_before \cup unreachable_hosts)]
    ELSE [drv EXCEPT !.pc = "loop", !.handler_result = handler_result]


NoPayload == Payload("", "", "")

\* no callback sent
NoCallback == [name |-> "", ignore_errors |-> FALSE]

Step(op, host, task, payload) ==
    [op |-> op, host |-> host, task |-> task, payload |-> payload,
     callback |-> NoCallback, warned |-> FALSE]

\* the callback _process_pending_results sends for a final result with the
\* payload p of task: the branch taken decides it; raised: the success branch
\* was left by an exception before its callback
result_callback_no_ignored(p, task, raised) ==
    IF is_failed(p) /\ task.ignore_errors THEN NoCallback
    ELSE IF is_failed(p) THEN [name |-> "v2_runner_on_failed", ignore_errors |-> FALSE]
    ELSE IF is_unreachable(p) THEN [name |-> "v2_runner_on_unreachable", ignore_errors |-> FALSE]
    ELSE IF is_skipped(p) THEN [name |-> "v2_runner_on_skipped", ignore_errors |-> FALSE]
    ELSE IF raised THEN NoCallback
    ELSE [name |-> "v2_runner_on_ok", ignore_errors |-> FALSE]

\* the callback _process_pending_results sends for a non-final result
partial_callback(p) ==
    [name |-> IF p.partial = "retry" THEN "v2_runner_retry"
              ELSE IF is_failed(p) \/ is_unreachable(p) THEN "v2_runner_item_on_failed"
              ELSE IF is_skipped(p) THEN "v2_runner_item_on_skipped"
              ELSE "v2_runner_item_on_ok",
     ignore_errors |-> FALSE]

result_callback(p, task, raised) ==
    IF is_failed(p)
    THEN [name |-> "v2_runner_on_failed", ignore_errors |-> task.ignore_errors]
    ELSE IF is_unreachable(p) THEN [name |-> "v2_runner_on_unreachable", ignore_errors |-> FALSE]
    ELSE IF is_skipped(p) THEN [name |-> "v2_runner_on_skipped", ignore_errors |-> FALSE]
    ELSE IF raised THEN NoCallback
    ELSE [name |-> "v2_runner_on_ok", ignore_errors |-> FALSE]

NoFlush ==
    [snap |-> [i \in 1..Len(play.handlers) |-> <<>>],
     failed |-> [i \in 1..Len(play.handlers) |-> {}],
     disp |-> [i \in 1..Len(play.handlers) |-> [h \in DOMAIN host_states |-> 0]],
     done |-> {}]

\* no TaskResult under inspection, no fact cache
UnitsIdle ==
    /\ tr = [op |-> "none"]
    /\ fc = [op |-> "none"]
    /\ ch = [op |-> "none"]
    /\ inv_objs = <<>>
    /\ change = [op |-> "none", n |-> 0, changed |-> FALSE, ret |-> NoCall,
                 calls |-> 0]

InvFrame ==
    UNCHANGED <<inv_hosts, inv_groups, restriction, subset, ret, ncalls, g1, g2, uvars, gvars>>

\* number of dispatched units of work of host h whose result is not processed
InFlight(h) ==
    Cardinality({i \in 1..NumWorkers : workers[i].alive /\ workers[i].job.host = h})
    + Cardinality({i \in 1..Len(final_q) :
                       final_q[i].host = h /\ final_q[i].payload.partial = "none"})
    + Cardinality({i \in 1..Len(results) :
                       results[i].host = h /\ results[i].payload.partial = "none"})

\* the dispatch loop serves a host that is not blocked, not unreachable and
\* has a task left
Ready(h) ==
    /\ InList(h, play_hosts.hosts)
    /\ h \notin blocked_hosts
    /\ h \notin unreachable_hosts
    /\ next_task(host_states[h]) # NoTask

\* dispatch loop: the next task of h goes to _queue_task and h is blocked
Dispatch(h) ==
    /\ drv.pc = "loop"
    /\ ~terminated
    /\ Ready(h)
    /\ LET ref == next_task(host_states[h])
           t   == TaskOf(ref)
       IN  /\ t.meta = ""
           /\ ~(t.run_once /\ ref \in ran_once)
           /\ host_states' = [host_states EXCEPT ![h] = advance(@)]
           /\ ran_once' = IF t.run_once THEN ran_once \cup {ref} ELSE ran_once
           /\ blocked_hosts' = blocked_hosts \cup {h}
           /\ drv' = [drv EXCEPT !.pc = "queue", !.back = "loop",
                                 !.job = [host |-> h, task |-> ref]]
           /\ last' = Step("dispatch", h, ref, NoPayload)
    /\ TouchCaches(TRUE)
    /\ InvFrame
    /\ UNCHANGED terminated
    /\ UNCHANGED <<play, workers, cur_worker, pending_results, queued_task_cache,
                   final_q, results, notified_handlers, failed_hosts,
                   unreachable_hosts, removed_hosts, stats, custom_stats, facts, flush>>

\* dispatch loop: a run_once task that already has its representative is not
\* dispatched to h
SkipRunOnce(h) ==
    /\ drv.pc = "loop"
    /\ ~terminated
    /\ Ready(h)
    /\ LET ref == next_task(host_states[h])
           t   == TaskOf(ref)
       IN  /\ t.meta = ""
           /\ t.run_once /\ ref \in ran_once
           /\ host_states' = [host_states EXCEPT ![h] = advance(@)]
           /\ last' = Step("skip_run_once", h, ref, NoPayload)
    /\ TouchCaches(TRUE)
    /\ InvFrame
    /\ UNCHANGED terminated
    /\ UNCHANGED <<play, ran_once, workers, cur_worker, pending_results, blocked_hosts,
                   queued_task_cache, final_q, results, notified_handlers, drv,
                   failed_hosts, unreachable_hosts, removed_hosts, stats,
                   custom_stats, facts, flush>>

free_slot(i) == ~workers[i].alive

scan_slot_at_cursor == cur_worker

\* the slot the scan of _queue_task stops at: the first free one from _cur_worker
scan_slot ==
    LET dist(i) == (i - cur_worker + NumWorkers) % NumWorkers
    IN  CHOOSE i \in 1..NumWorkers :
            free_slot(i) /\ \A j \in 1..NumWorkers : free_slot(j) => dist(i) <= dist(j)

\* _queue_task: waits for a free slot, starts the worker, counts the result
queue_task ==
    /\ drv.pc = "queue"
    /\ \E i \in 1..NumWorkers : free_slot(i)
    /\ workers' = [workers EXCEPT ![scan_slot] = [alive |-> TRUE, job |-> drv.job, dead |-> FALSE]]
    /\ cur_worker' = (scan_slot % NumWorkers) + 1
    /\ queued_task_cache' = queued_task_cache \cup {<<drv.job.host, drv.job.task>>}
    /\ pending_results' = pending_results + 1
    /\ drv' = [drv EXCEPT !.pc = drv.back, !.job = NoJob]
    /\ flush' = IF drv.job.task.kind = "handler"
                THEN [flush EXCEPT !.disp[drv.job.task.idx][drv.job.host] = @ + 1]
                ELSE flush
    /\ last' = Step("queue", drv.job.host, drv.job.task, NoPayload)
    /\ InvFrame
    /\ UNCHANGED terminated
    /\ UNCHANGED <<hosts_patterns_cache, pattern_cache, play, host_states, ran_once,
                   blocked_hosts, final_q, results, notified_handlers, failed_hosts,
                   unreachable_hosts, removed_hosts, stats, custom_stats, facts>>

\* WorkerProcess.run: executes the task, puts its one final result, exits
worker_run(i) ==
    /\ workers[i].alive
    /\ \E p \in Payloads(TaskOf(workers[i].job.task)) :
         final_q' = Append(final_q, [host |-> workers[i].job.host,
                                     task |-> workers[i].job.task, payload |-> p])
    /\ workers' = [workers EXCEPT ![i] = [alive |-> FALSE, job |-> NoJob, dead |-> FALSE]]
    /\ last' = Step("worker", workers[i].job.host, workers[i].job.task, NoPayload)
    /\ InvFrame
    /\ UNCHANGED terminated
    /\ UNCHANGED <<hosts_patterns_cache, pattern_cache, play, host_states, ran_once,
                   cur_worker, pending_results, blocked_hosts, queued_task_cache,
                   results, notified_handlers, drv, failed_hosts, unreachable_hosts,
                   removed_hosts, stats, custom_stats, facts, flush>>

MaxPartials == 1

\* the non-final results of the worker i that are on their way
OnTheirWay(i) ==
    Cardinality({k \in 1..Len(final_q) : /\ final_q[k].host = workers[i].job.host
                                         /\ final_q[k].payload.partial # "none"})
    + Cardinality({k \in 1..Len(results) : /\ results[k].host = workers[i].job.host
                                           /\ results[k].payload.partial # "none"})

\* WorkerProcess.run, before the task is done: a retry or the result of a
\* loop item is put on the channel
worker_partial(i) ==
    /\ workers[i].alive
    /\ OnTheirWay(i) < MaxPartials
    /\ \E p \in Partials(TaskOf(workers[i].job.task)) :
         final_q' = Append(final_q, [host |-> workers[i].job.host,
                                     task |-> workers[i].job.task, payload |-> p])
    /\ last' = Step("worker_partial", workers[i].job.host, workers[i].job.task, NoPayload)
    /\ InvFrame
    /\ UNCHANGED terminated
    /\ UNCHANGED <<hosts_patterns_cache, pattern_cache, play, host_states, ran_once,
                   workers, cur_worker, pending_results, blocked_hosts, queued_task_cache,
                   results, notified_handlers, drv, failed_hosts, unreachable_hosts,
                   removed_hosts, stats, custom_stats, facts, flush>>

\* results_thread_main: one result from the channel into the deque
results_thread_main ==
    /\ final_q # <<>>
    /\ results' = Append(results, Head(final_q))
    /\ final_q' = Tail(final_q)
    /\ last' = Step("reader", Head(final_q).host, Head(final_q).task, NoPayload)
    /\ InvFrame
    /\ UNCHANGED terminated
    /\ UNCHANGED <<hosts_patterns_cache, pattern_cache, play, host_states, ran_once,
                   workers, cur_worker, pending_results, blocked_hosts,
                   queued_task_cache, notified_handlers, drv, failed_hosts,
                   unreachable_hosts, removed_hosts, stats, custom_stats, facts, flush>>

\* _process_pending_results: one turn of its loop, on the result at the left
\* of the deque; a non-final result has its callback and the turn ends
process_pending_results ==
    /\ drv.pc \in {"loop", "hd_proc"}
    /\ results # <<>>
    /\ LET task_result   == Head(results)
           original_host == task_result.host
           original_task == TaskOf(task_result.task)
           p             == task_result.payload
           failing       == is_failed(p) /\ ~original_task.ignore_errors
           ignored       == is_failed(p) /\ original_task.ignore_errors
           unreachable   == ~is_failed(p) /\ is_unreachable(p)
           skipped       == ~is_failed(p) /\ ~is_unreachable(p) /\ is_skipped(p)
           success       == ~is_failed(p) /\ ~is_unreachable(p) /\ ~is_skipped(p)
           marked        == IF failing THEN fail_targets(original_host, original_task)
                            ELSE {}
           states        == [h \in DOMAIN host_states |->
                                IF h \in marked THEN mark_host_failed(host_states[h])
                                ELSE host_states[h]]
           notifying     == success /\ is_changed(p)
           missing       == notifying /\ \E k \in 1..Len(original_task.notify) :
                                             ~handler_found(original_task.notify[k])
           raised        == missing /\ ERROR_ON_MISSING_HANDLER
           counted       == IF (success /\ ~raised) \/ ignored
                            THEN ok_stat_hosts(original_host, original_task) ELSE {}
           st1 == Incr(stats, "ok", counted)
           st2 == IF is_changed(p) THEN Incr(st1, "changed", counted) ELSE st1
           st3 == IF failing THEN Incr(st2, "failures", {original_host}) ELSE st2
           st4 == IF unreachable THEN Incr(st3, "dark", {original_host}) ELSE st3
           st5 == IF skipped THEN Incr(st4, "skipped", {original_host}) ELSE st4
       IN  IF ~is_final(p)
           THEN
           /\ results' = Tail(results)
           /\ last' = [Step("partial", original_host, task_result.task, p) EXCEPT
                          !.callback = partial_callback(p)]
           /\ TouchCaches(FALSE)
           /\ UNCHANGED <<host_states, failed_hosts, unreachable_hosts, removed_hosts,
                          stats, notified_handlers, facts, custom_stats,
                          pending_results, blocked_hosts, drv>>
           ELSE
           /\ results' = Tail(results)
           /\ host_states' = states
           /\ failed_hosts' =
                  IF failing /\ states[original_host].fail_state = "FAILED"
                     /\ effective_run_state(states[original_host]) = "COMPLETE"
                  THEN failed_hosts \cup {original_host} ELSE failed_hosts
           /\ unreachable_hosts' =
                  IF unreachable THEN unreachable_hosts \cup {original_host}
                  ELSE unreachable_hosts
           /\ removed_hosts' =
                  IF unreachable THEN Append(removed_hosts, original_host)
                  ELSE removed_hosts
           /\ stats' = st5
           /\ notified_handlers' =
                  IF notifying
                  THEN notify_handlers(notified_handlers, original_task.notify, original_host)
                  ELSE notified_handlers
           /\ facts' =
                  IF success /\ ~raised /\ p.facts # ""
                  THEN [h \in DOMAIN facts |->
                           IF InList(h, fact_hosts(original_host, original_task))
                           THEN p.facts ELSE facts[h]]
                  ELSE facts
           /\ custom_stats' =
                  IF success /\ ~raised /\ p.stats # ""
                  THEN [h \in DOMAIN custom_stats |->
                           IF InList(h, custom_stat_hosts(original_host, original_task))
                           THEN p.stats ELSE custom_stats[h]]
                  ELSE custom_stats
           /\ pending_results' = IF raised THEN pending_results ELSE pending_results - 1
           /\ blocked_hosts' = IF raised THEN blocked_hosts
                               ELSE blocked_hosts \ {original_host}
           /\ drv' = IF raised THEN [drv EXCEPT !.pc = "error", !.taken = 1]
                     ELSE IF drv.pc = "hd_proc"
                          THEN [drv EXCEPT !.ret_results = Append(@, task_result)]
                     ELSE drv
           /\ TouchCaches(original_task.run_once
                          /\ (failing \/ (success /\ ~raised
                                           /\ (p.facts # "" \/ p.stats # ""))))
           /\ last' = [Step("result", original_host, task_result.task, p) EXCEPT
                          !.callback = result_callback(p, original_task, raised),
                          !.warned = missing /\ ~ERROR_ON_MISSING_HANDLER]
    /\ InvFrame
    /\ UNCHANGED terminated
    /\ UNCHANGED <<play, ran_once, workers, cur_worker, queued_task_cache, final_q, flush>>

\* run_handlers: the loop over the handlers of the play, at handler drv.hidx
run_handlers ==
    /\ drv.pc = "rh_loop"
    /\ LET i == drv.hidx
       IN  IF i > Len(play.handlers)
           THEN /\ drv' = [run_handlers_return(drv.handler_result) EXCEPT
                              !.ret_results = <<>>]
                /\ flush' = flush
           ELSE IF notified_handlers[i] # <<>>
           THEN /\ drv' = [drv EXCEPT !.pc = "hd_loop", !.nidx = 1, !.ret_results = <<>>]
                /\ flush' = [flush EXCEPT
                               !.snap[i] = notified_handlers[i],
                               !.failed[i] = {h \in Range(notified_handlers[i]) :
                                                 iterator_is_failed(h)}]
           ELSE /\ drv' = [drv EXCEPT !.hidx = i + 1, !.ret_results = <<>>]
                /\ flush' = flush
    /\ last' = Step("run_handlers", "", NoTask, NoPayload)
    /\ InvFrame
    /\ UNCHANGED terminated
    /\ UNCHANGED <<hosts_patterns_cache, pattern_cache, play, host_states, ran_once,
                   workers, cur_worker, pending_results, blocked_hosts,
                   queued_task_cache, final_q, results, notified_handlers,
                   failed_hosts, unreachable_hosts, removed_hosts, stats,
                   custom_stats, facts>>

\* TaskQueueManager.has_dead_workers
has_dead_workers == \E i \in 1..NumWorkers : workers[i].dead

\* the head of the loop of _wait_on_pending_results: what the turn does
wait_next_ignore_dead ==
    IF ~(pending_results > 0 /\ ~terminated) THEN "return" ELSE "process"

wait_next_returns_at_once == "return"

wait_next_never_zero ==
    IF ~(pending_results >= 0 /\ ~terminated) THEN "return"
    ELSE IF has_dead_workers THEN "raise"
    ELSE "process"

wait_on_pending_results_next ==
    IF ~(pending_results > 0 /\ ~terminated) THEN "return"
    ELSE IF has_dead_workers THEN "raise"
    ELSE "process"

\* _wait_on_pending_results, one turn of its loop that does not return: a dead
\* worker raises, else _process_pending_results is entered
wait_on_pending_results ==
    /\ drv.pc = "hd_wait"
    /\ wait_on_pending_results_next # "return"
    /\ drv' = [drv EXCEPT !.pc = IF wait_on_pending_results_next = "raise" THEN "error"
                                 ELSE "hd_proc"]
    /\ last' = Step(IF wait_on_pending_results_next = "raise" THEN "wait_raise"
                    ELSE "wait_turn", "", TaskRef("handler", drv.hidx), NoPayload)
    /\ InvFrame
    /\ UNCHANGED <<hosts_patterns_cache, pattern_cache, play, host_states, ran_once,
                   workers, cur_worker, pending_results, blocked_hosts,
                   queued_task_cache, final_q, results, notified_handlers,
                   failed_hosts, unreachable_hosts, terminated, removed_hosts, stats,
                   custom_stats, facts, flush>>

\* _process_pending_results called by the wait finds the deque empty and
\* returns; the wait sleeps and takes its next turn
process_pending_results_end ==
    /\ drv.pc = "hd_proc"
    /\ results = <<>>
    /\ drv' = [drv EXCEPT !.pc = "hd_wait"]
    /\ last' = Step("wait_sleep", "", TaskRef("handler", drv.hidx), NoPayload)
    /\ InvFrame
    /\ UNCHANGED <<hosts_patterns_cache, pattern_cache, play, host_states, ran_once,
                   workers, cur_worker, pending_results, blocked_hosts,
                   queued_task_cache, final_q, results, notified_handlers,
                   failed_hosts, unreachable_hosts, terminated, removed_hosts, stats,
                   custom_stats, facts, flush>>

\* TaskQueueManager.terminate: the process-wide flag is set
terminate ==
    /\ ~terminated
    /\ terminated' = TRUE
    /\ last' = Step("terminate", "", NoTask, NoPayload)
    /\ InvFrame
    /\ UNCHANGED <<hosts_patterns_cache, pattern_cache, play, host_states, ran_once,
                   workers, cur_worker, pending_results, blocked_hosts,
                   queued_task_cache, final_q, results, notified_handlers, drv,
                   failed_hosts, unreachable_hosts, removed_hosts, stats,
                   custom_stats, facts, flush>>

\* a worker process is killed before it sends its result
worker_dies(i) ==
    /\ workers[i].alive
    /\ workers' = [workers EXCEPT ![i] = [alive |-> FALSE, job |-> NoJob, dead |-> TRUE]]
    /\ last' = Step("worker_dies", workers[i].job.host, workers[i].job.task, NoPayload)
    /\ InvFrame
    /\ UNCHANGED <<hosts_patterns_cache, pattern_cache, play, host_states, ran_once,
                   cur_worker, pending_results, blocked_hosts, queued_task_cache,
                   final_q, results, notified_handlers, drv, failed_hosts,
                   unreachable_hosts, terminated, removed_hosts, stats, custom_stats,
                   facts, flush>>

\* the same condition without the test of the host's failure
handler_runs_on_failed_hosts(i, h) == ~has_triggered(i, h)

\* the condition under which _do_handler_run queues the handler for a host
handler_runs_on(i, h) ==
    ~has_triggered(i, h) /\ (~iterator_is_failed(h) \/ play.force_handlers)

handler_loop_never_breaks(i) == "hd_loop"

\* "if run_once: break": where _do_handler_run goes after it queued handler
\* i for a host, to the wait or to the next notified host
handler_loop_after_queue(i) ==
    IF play.handlers[i].run_once THEN "hd_wait" ELSE "hd_loop"

\* _do_handler_run: the loop over the notified hosts, at position drv.nidx
do_handler_run ==
    /\ drv.pc = "hd_loop"
    /\ LET i        == drv.hidx
           notified == notified_handlers[i]
           n        == drv.nidx
       IN  IF n > Len(notified)
           THEN drv' = [drv EXCEPT !.pc = "hd_wait"]
           ELSE IF handler_runs_on(i, notified[n])
           THEN drv' = [drv EXCEPT !.pc = "queue", !.nidx = n + 1,
                                   !.job = [host |-> notified[n], task |-> TaskRef("handler", i)],
                                   !.back = handler_loop_after_queue(i)]
           ELSE drv' = [drv EXCEPT !.nidx = n + 1]
    /\ last' = Step("do_handler_run", "", TaskRef("handler", drv.hidx), NoPayload)
    /\ InvFrame
    /\ UNCHANGED terminated
    /\ UNCHANGED <<hosts_patterns_cache, pattern_cache, play, host_states, ran_once,
                   workers, cur_worker, pending_results, blocked_hosts,
                   queued_task_cache, final_q, results, notified_handlers,
                   failed_hosts, unreachable_hosts, removed_hosts, stats,
                   custom_stats, facts, flush>>

\* _do_handler_run after _wait_on_pending_results returned: the results of an
\* include are processed, which may raise and end the run with False; else the
\* list is wiped
handler_run_done ==
    /\ drv.pc = "hd_wait"
    /\ wait_on_pending_results_next = "return"
    /\ \E included \in (IF play.handlers[drv.hidx].include THEN BOOLEAN ELSE {TRUE}) :
         IF included
         THEN /\ notified_handlers' = [notified_handlers EXCEPT ![drv.hidx] = <<>>]
              /\ drv' = [drv EXCEPT !.pc = "rh_loop", !.hidx = @ + 1,
                                    !.handler_result = "True"]
         ELSE /\ notified_handlers' = notified_handlers
              /\ drv' = run_handlers_return("False")
    /\ flush' = [flush EXCEPT !.done = @ \cup {drv.hidx}]
    /\ last' = Step("handler_run_done", "", TaskRef("handler", drv.hidx), NoPayload)
    /\ InvFrame
    /\ UNCHANGED terminated
    /\ UNCHANGED <<hosts_patterns_cache, pattern_cache, play, host_states, ran_once,
                   workers, cur_worker, pending_results, blocked_hosts,
                   queued_task_cache, final_q, results, failed_hosts,
                   unreachable_hosts, removed_hosts, stats, custom_stats, facts>>

\* the dispatch loop reaches a meta task of host h: _execute_meta
MetaReady(h, action) ==
    /\ drv.pc = "loop"
    /\ ~terminated
    /\ Ready(h)
    /\ TaskOf(next_task(host_states[h])).meta = action

\* meta: flush_handlers
execute_meta_flush_handlers(h) ==
    /\ MetaReady(h, "flush_handlers")
    /\ host_states' = [host_states EXCEPT ![h] = advance(@)]
    /\ drv' = [drv EXCEPT !.pc = "rh_loop", !.hidx = 1, !.caller = "meta",
                          !.handler_result = "RUN_OK"]
    /\ flush' = NoFlush
    /\ last' = Step("flush_handlers", h, next_task(host_states[h]), NoPayload)
    /\ TouchCaches(TRUE)
    /\ InvFrame
    /\ UNCHANGED terminated
    /\ UNCHANGED <<play, ran_once, workers, cur_worker, pending_results, blocked_hosts,
                   queued_task_cache, final_q, results, notified_handlers,
                   failed_hosts, unreachable_hosts, removed_hosts, stats,
                   custom_stats, facts>>

\* meta: clear_host_errors, its conditional true or false
execute_meta_clear_host_errors(h, conditional) ==
    /\ MetaReady(h, "clear_host_errors")
    /\ LET cleared == IF conditional THEN Range(play_hosts.hosts) ELSE {}
       IN  /\ failed_hosts' = failed_hosts \ cleared
           /\ unreachable_hosts' = unreachable_hosts \ cleared
           /\ host_states' =
                  [x \in DOMAIN host_states |->
                      LET st == IF x = h THEN advance(host_states[x]) ELSE host_states[x]
                      IN  IF x \in cleared THEN [st EXCEPT !.fail_state = "NONE"] ELSE st]
    /\ last' = Step("clear_host_errors", h, next_task(host_states[h]),
                    Payload(IF conditional THEN "ok" ELSE "skipped", "", ""))
    /\ TouchCaches(TRUE)
    /\ InvFrame
    /\ UNCHANGED terminated
    /\ UNCHANGED <<play, ran_once, workers, cur_worker, pending_results, blocked_hosts,
                   queued_task_cache, final_q, results, notified_handlers, drv,
                   removed_hosts, stats, custom_stats, facts, flush>>

\* meta: end_play, its conditional true or false
execute_meta_end_play(h, conditional) ==
    /\ MetaReady(h, "end_play")
    /\ LET ended == IF conditional
                    THEN {x \in Range(play_hosts.hosts) : x \notin unreachable_hosts}
                    ELSE {}
       IN  host_states' =
               [x \in DOMAIN host_states |->
                   LET st == IF x = h THEN advance(host_states[x]) ELSE host_states[x]
                   IN  IF x \in ended THEN [st EXCEPT !.run_state = "COMPLETE"] ELSE st]
    /\ last' = Step("end_play", h, next_task(host_states[h]),
                    Payload(IF conditional THEN "ok" ELSE "skipped", "", ""))
    /\ TouchCaches(TRUE)
    /\ InvFrame
    /\ UNCHANGED terminated
    /\ UNCHANGED <<play, ran_once, workers, cur_worker, pending_results, blocked_hosts,
                   queued_task_cache, final_q, results, notified_handlers, drv,
                   failed_hosts, unreachable_hosts, removed_hosts, stats,
                   custom_stats, facts, flush>>

\* StrategyBase.run: the dispatch loop has nothing left and nothing pending,
\* or found the terminated flag set; one more pass through the iterator, then
\* the handlers
run ==
    /\ drv.pc = "loop"
    /\ \/ terminated
       \/ pending_results = 0 /\ \A h \in Range(play_hosts.hosts) : ~Ready(h)
    /\ host_states' = [h \in DOMAIN host_states |->
                          IF h \notin unreachable_hosts THEN advance(host_states[h])
                          ELSE host_states[h]]
    /\ \E result \in {RUN_OK, RUN_FAILED_BREAK_PLAY} :
         drv' = [drv EXCEPT !.pc = "rh_loop", !.hidx = 1, !.caller = "run",
                            !.result = result, !.handler_result = "RUN_OK",
                            !.failed_before = get_failed_hosts,
                            !.unreachable_before = unreachable_hosts]
    /\ flush' = NoFlush
    /\ last' = Step("run", "", NoTask, NoPayload)
    /\ TouchCaches(TRUE)
    /\ InvFrame
    /\ UNCHANGED terminated
    /\ UNCHANGED <<play, ran_once, workers, cur_worker, pending_results, blocked_hosts,
                   queued_task_cache, final_q, results, notified_handlers,
                   failed_hosts, unreachable_hosts, removed_hosts, stats,
                   custom_stats, facts>>

ZeroStats == [ok |-> 0, changed |-> 0, failures |-> 0, dark |-> 0, skipped |-> 0]

Hosts3 == <<"h1", "h2", "h3">>

InitWith(plays) ==
    /\ inv_hosts = Hosts3
    /\ inv_groups = MakeGroups(Hosts3, None)
    /\ hosts_patterns_cache = <<>>
    /\ pattern_cache = <<>>
    /\ restriction = None
    /\ subset = None
    /\ ret = NoCall
    /\ ncalls = 0
    /\ g1 = "all"
    /\ g2 = "all"
    /\ play \in plays
    /\ host_states = [h \in Range(play_hosts.hosts) |->
                         [cur |-> 1, run_state |-> "TASKS", fail_state |-> "NONE"]]
    /\ ran_once = {}
    /\ workers = [i \in 1..NumWorkers |-> [alive |-> FALSE, job |-> NoJob, dead |-> FALSE]]
    /\ cur_worker = 1
    /\ pending_results = 0
    /\ blocked_hosts = {}
    /\ queued_task_cache = {}
    /\ final_q = <<>>
    /\ results = <<>>
    /\ notified_handlers = [i \in 1..Len(play.handlers) |-> <<>>]
    /\ drv = [pc |-> "loop", job |-> NoJob, back |-> "loop", hidx |-> 0, nidx |-> 0,
              caller |-> "", result |-> RUN_OK, failed_before |-> {},
              unreachable_before |-> {}, handler_result |-> "RUN_OK", rc |-> RUN_OK,
              ret_results |-> <<>>, taken |-> 0]
    /\ failed_hosts = {}
    /\ unreachable_hosts = {}
    /\ terminated = FALSE
    /\ removed_hosts = <<>>
    /\ stats = [h \in Range(Hosts3) |-> ZeroStats]
    /\ custom_stats = [h \in Range(Hosts3) |-> ""]
    /\ facts = [h \in Range(Hosts3) |-> ""]
    /\ last = Step("init", "", NoTask, NoPayload)
    /\ flush = NoFlush
    /\ UnitsIdle

Init == InitWith(Plays)

Next ==
    \/ \E h \in Range(Hosts3) : Dispatch(h)
    \/ \E h \in Range(Hosts3) : SkipRunOnce(h)
    \/ queue_task
    \/ \E i \in 1..NumWorkers : worker_run(i)
    \/ \E i \in 1..NumWorkers : worker_partial(i)
    \/ results_thread_main
    \/ process_pending_results
    \/ wait_on_pending_results
    \/ process_pending_results_end
    \/ run_handlers
    \/ do_handler_run
    \/ handler_run_done
    \/ \E h \in Range(Hosts3) : execute_meta_flush_handlers(h)
    \/ \E h \in Range(Hosts3), c \in BOOLEAN : execute_meta_clear_host_errors(h, c)
    \/ \E h \in Range(Hosts3), c \in BOOLEAN : execute_meta_end_play(h, c)
    \/ run

Spec == Init /\ [][Next]_vars

\* the play that waits on its handlers, with the terminated flag set at any
\* moment and workers killed at any moment
InitWait == InitWith({PlayWait})

\* the steps of the driver, of the workers and of the reader thread
DriverStep ==
    \/ \E h \in Range(Hosts3) : Dispatch(h)
    \/ queue_task
    \/ process_pending_results
    \/ wait_on_pending_results
    \/ process_pending_results_end
    \/ run_handlers
    \/ do_handler_run
    \/ handler_run_done
    \/ run

WorkerStep == \E i \in 1..NumWorkers : worker_run(i)

NextLive == DriverStep \/ WorkerStep \/ results_thread_main

NextWait ==
    \/ NextLive
    \/ terminate
    \/ \E i \in 1..NumWorkers : worker_dies(i)

SpecWait == InitWait /\ [][NextWait]_vars

\* the same with a driver that keeps running when it can, whatever the
\* workers do
SpecWaitDriver == SpecWait /\ WF_vars(DriverStep)

\* no termination and no killed worker; every started worker sends its
\* result, the reader thread and the driver keep running
LiveWait ==
    /\ InitWait
    /\ [][NextLive]_vars
    /\ WF_vars(DriverStep)
    /\ \A i \in 1..NumWorkers : WF_vars(worker_run(i))
    /\ WF_vars(results_thread_main)

-----------------------------------------------------------------------------
(* The resolver on its own: inventories over HostUniverse, calls of         *)
(* get_hosts with the patterns two terms can form, cache clearing.          *)

\* a caller's get_hosts(pattern): the returned list and the caches it leaves
call_get_hosts(pattern, ignore_limits, ignore_restrictions, order) ==
    /\ ncalls < MaxCalls
    /\ \E r \in {get_hosts(pattern, ignore_limits, ignore_restrictions, "None")} :
         \E o \in (IF r.error THEN {[hosts |-> <<>>, error |-> TRUE]}
                   ELSE order_outcomes(r.hosts, order)) :
           /\ ret' = [given |-> pattern, pattern |-> split_host_pattern(pattern),
                      ignore_limits |-> ignore_limits,
                      ignore_restrictions |-> ignore_restrictions, order |-> order,
                      hosts |-> o.hosts, error |-> o.error]
           /\ hosts_patterns_cache' = r.hosts_patterns_cache
           /\ pattern_cache' = r.pattern_cache
    /\ ncalls' = ncalls + 1
    /\ UNCHANGED <<inv_hosts, inv_groups, restriction, subset, g1, g2>>
    /\ UNCHANGED <<svars, uvars, gvars>>

\* clear_caches
clear_caches ==
    /\ hosts_patterns_cache # <<>> \/ pattern_cache # <<>>
    /\ hosts_patterns_cache' = <<>>
    /\ pattern_cache' = <<>>
    /\ UNCHANGED <<inv_hosts, inv_groups, restriction, subset, ret, ncalls, g1, g2>>
    /\ UNCHANGED <<svars, uvars, gvars>>

\* subset(subset_pattern): None lifts the limit, a pattern is split and kept
set_subset(subset_pattern) ==
    /\ subset' = IF subset_pattern.none THEN None
                 ELSE Some(split_host_pattern(subset_pattern.list))
    /\ subset' # subset
    /\ UNCHANGED <<inv_hosts, inv_groups, hosts_patterns_cache, pattern_cache,
                   restriction, ret, ncalls, g1, g2>>
    /\ UNCHANGED <<svars, uvars, gvars>>

\* restrict_to_hosts(restriction): None changes nothing, a list of hosts is
\* kept by name
restrict_to_hosts(hosts) ==
    /\ restriction' = IF hosts.none THEN restriction ELSE Some(hosts.list)
    /\ restriction' # restriction
    /\ UNCHANGED <<inv_hosts, inv_groups, hosts_patterns_cache, pattern_cache,
                   subset, ret, ncalls, g1, g2>>
    /\ UNCHANGED <<svars, uvars, gvars>>

\* remove_restriction
remove_restriction ==
    /\ restriction # None
    /\ restriction' = None
    /\ UNCHANGED <<inv_hosts, inv_groups, hosts_patterns_cache, pattern_cache,
                   subset, ret, ncalls, g1, g2>>
    /\ UNCHANGED <<svars, uvars, gvars>>

\* the strategy at rest, as the resolver's specifications leave it
StrategyIdle ==
    /\ play = BasePlay
    /\ host_states = <<>>
    /\ ran_once = {}
    /\ workers = [i \in 1..NumWorkers |-> [alive |-> FALSE, job |-> NoJob, dead |-> FALSE]]
    /\ cur_worker = 1
    /\ pending_results = 0
    /\ blocked_hosts = {}
    /\ queued_task_cache = {}
    /\ final_q = <<>>
    /\ results = <<>>
    /\ notified_handlers = <<>>
    /\ drv = [pc |-> "done", job |-> NoJob, back |-> "loop", hidx |-> 0, nidx |-> 0,
              caller |-> "", result |-> RUN_OK, failed_before |-> {},
              unreachable_before |-> {}, handler_result |-> "RUN_OK", rc |-> RUN_OK,
              ret_results |-> <<>>, taken |-> 0]
    /\ failed_hosts = {}
    /\ unreachable_hosts = {}
    /\ terminated = FALSE
    /\ removed_hosts = <<>>
    /\ stats = <<>>
    /\ custom_stats = <<>>
    /\ facts = <<>>
    /\ last = Step("init", "", NoTask, NoPayload)
    /\ flush = NoFlush

InitInv ==
    /\ \E hs \in SUBSET Range(HostUniverse) :
         /\ hs # {}
         /\ inv_hosts = Subsequence(HostUniverse, hs)
         /\ \E w \in {None} \cup {Some(l) : l \in DistinctLists(hs, MaxGroupHosts)} :
              inv_groups = MakeGroups(inv_hosts, w)
    /\ g1 \in TermNames
    /\ g2 \in TermNames
    /\ hosts_patterns_cache = <<>>
    /\ pattern_cache = <<>>
    /\ restriction = None
    /\ subset = None
    /\ ret = NoCall
    /\ ncalls = 0
    /\ StrategyIdle
    /\ UnitsIdle

NextInv ==
    \/ \E pattern \in Patterns(g1, g2) : call_get_hosts(ListOf(pattern), FALSE, FALSE, "None")
    \/ clear_caches

SpecInv == InitInv /\ [][NextInv]_vars

\* the resolver on inventories whose group "db" lists hosts of DbHosts in
\* some order, asked for subscripted terms
InitSub ==
    /\ \E hs \in SUBSET Range(DbHosts) :
         /\ hs # {}
         /\ inv_hosts = Subsequence(DbHosts, hs)
         /\ \E db \in DistinctLists(hs, MaxDbGroup) : inv_groups = MakeDbGroups(inv_hosts, db)
    /\ g1 \in SubTerms
    /\ g2 = "all"
    /\ hosts_patterns_cache = <<>>
    /\ pattern_cache = <<>>
    /\ restriction = None
    /\ subset = None
    /\ ret = NoCall
    /\ ncalls = 0
    /\ StrategyIdle
    /\ UnitsIdle

NextSub ==
    \/ \E pattern \in SubPatterns(g1) : call_get_hosts(ListOf(pattern), FALSE, FALSE, "None")
    \/ clear_caches

SpecSub == InitSub /\ [][NextSub]_vars

\* the order values of get_hosts, 'shuffle' left out
AllOrders == {"None", "inventory", "sorted", "reverse_sorted", "reverse_inventory"}

\* patterns of one or two unprefixed terms
OrderPatterns(a, b) == { <<Term("", a)>>, <<Term("", a), Term("", b)>> }

\* the resolver called with an order on the inventories of InitInv
NextOrder ==
    \/ \E pattern \in OrderPatterns(g1, g2), order \in AllOrders :
         call_get_hosts(ListOf(pattern), FALSE, FALSE, order)
    \/ clear_caches

SpecOrder == InitInv /\ [][NextOrder]_vars

\* the resolver without an inventory, as the specifications of the other
\* units leave it
ResolverIdle ==
    /\ inv_hosts = <<>>
    /\ inv_groups = [g \in {"all", "ungrouped"} |-> <<>>]
    /\ g1 = "all"
    /\ g2 = "all"
    /\ hosts_patterns_cache = <<>>
    /\ pattern_cache = <<>>
    /\ restriction = None
    /\ subset = None
    /\ ret = NoCall
    /\ ncalls = 0
    /\ inv_objs = <<>>
    /\ change = [op |-> "none", n |-> 0, changed |-> FALSE, ret |-> NoCall,
                 calls |-> 0]

\* most elements of a results list
MaxItems == 3

\* the elements of a results list: skipped, not skipped, not a dict
Items == {Item(TRUE, TRUE), Item(TRUE, FALSE), Item(FALSE, FALSE)}

\* payloads of looped tasks, and of tasks without a loop
LoopPayloads ==
    {[NoPayload EXCEPT !.skipped = s, !.results = r] :
        s \in BOOLEAN, r \in ListsUpTo(Items, MaxItems)}

\* a TaskResult is built on a payload
InitSkipped ==
    /\ ResolverIdle
    /\ StrategyIdle
    /\ fc = [op |-> "none"]
    /\ ch = [op |-> "none"]
    /\ \E p \in LoopPayloads : tr = [op |-> "init", result |-> p, ret |-> FALSE]

\* a call of is_skipped()
call_is_skipped ==
    /\ tr.op = "init"
    /\ tr' = [tr EXCEPT !.op = "is_skipped", !.ret = is_skipped(tr.result)]
    /\ UNCHANGED <<ivars, svars, gvars, fc, ch>>

NextSkipped == call_is_skipped

SpecSkipped == InitSkipped /\ [][NextSkipped]_vars

-----------------------------------------------------------------------------
(* TaskResult.clean_copy on payloads that are dicts: key -> value.          *)

\* the dict d with d[k] = v
Extend(d, k, v) == [x \in DOMAIN d \cup {k} |-> IF x = k THEN v ELSE d[x]]

\* the dict d without the keys ks
Without(d, ks) == [x \in DOMAIN d \ ks |-> d[x]]

\* d.get(k, default)
Get(d, k, default) == IF k \in DOMAIN d THEN d[k] ELSE default

\* _IGNORE and _PRESERVE of task_result.py
IGNORE == {}

PRESERVE == {"attempts", "changed", "retries", "failed", "unreachable", "skipped"}

\* the text put in place of a hidden result
Censored ==
    "the output has been hidden due to the fact that 'no_log: true' was specified for this result"

\* the keys of the payloads that start with _ansible_
InternalKeys == {"_ansible_no_log", "_ansible_parsed", "_ansible_verbose_always"}

\* strip_internal_keys(dirty, exceptions): the internal keys go, but for the
\* exceptions
strip_internal_keys(dirty, exceptions) ==
    Without(dirty, (DOMAIN dirty \cap InternalKeys) \ exceptions)

clean_copy_keeps_stdout(task, result) ==
    IF task.no_log \/ Get(result, "_ansible_no_log", FALSE)
    THEN [k \in {"censored"} \cup (DOMAIN result \cap (PRESERVE \cup {"stdout"})) |->
             IF k = "censored" THEN Censored ELSE result[k]]
    ELSE result

\* clean_copy: the payload of the TaskResult it returns
clean_copy(task, result) ==
    IF task.no_log \/ Get(result, "_ansible_no_log", FALSE)
    THEN [k \in {"censored"} \cup (DOMAIN result \cap PRESERVE) |->
             IF k = "censored" THEN Censored ELSE result[k]]
    ELSE IF DOMAIN result # {}
    THEN strip_internal_keys(
             Without(result, IF task.action = "debug" THEN IGNORE \cup {"invocation"}
                             ELSE IGNORE),
             {"_ansible_verbose_always", "_ansible_item_label", "_ansible_no_log"})
    ELSE <<>>

\* the sets of dicts ds, each as it is and with the key k set to a value of vs
With(ds, k, vs) == ds \cup {Extend(d, k, v) : d \in ds, v \in vs}

\* the payloads clean_copy is called on: status keys, output, internal keys
CopyPayloads ==
    With(With(With(With(With(With(With({<<>>},
        "changed", BOOLEAN), "failed", {TRUE}), "attempts", {2}),
        "stdout", {"secret1", "secret2"}), "invocation", {"args"}),
        "_ansible_no_log", BOOLEAN), "_ansible_parsed", {TRUE})

\* a TaskResult is built on a payload for a task
InitCopy ==
    /\ ResolverIdle
    /\ StrategyIdle
    /\ fc = [op |-> "none"]
    /\ ch = [op |-> "none"]
    /\ \E p \in CopyPayloads, no_log \in BOOLEAN, action \in {"debug", "command"} :
         tr = [op |-> "init", task |-> [no_log |-> no_log, action |-> action],
               given |-> p, result |-> p, ret |-> <<>>]

\* a call of clean_copy(): the payload of the copy is kept in ret; _result
\* of the original is read and never assigned
call_clean_copy ==
    /\ tr.op = "init"
    /\ tr' = [tr EXCEPT !.op = "clean_copy", !.ret = clean_copy(tr.task, tr.result),
                        !.result = tr.result]
    /\ UNCHANGED <<ivars, svars, gvars, fc, ch>>

NextCopy == call_clean_copy

SpecCopy == InitCopy /\ [][NextCopy]_vars

-----------------------------------------------------------------------------
(* BaseFileCacheModule: the in-memory dict _cache over the files of the    *)
(* cache directory. fc.files is the directory, key -> [value, mtime];      *)
(* fc.now is time.time(); fc.known keeps, for the checks, the value of     *)
(* each key set or read by this process since its last delete or flush.    *)

MaxTime == 3

CacheKeys == {"h1", "h2"}

CacheValues == {"v1", "v2"}

\* C.CACHE_PLUGIN_TIMEOUT
Timeouts == {0, 2}

\* has_expired(key): the answer, and _cache after it
has_expired(c, key) ==
    IF c.timeout = 0 THEN [ret |-> FALSE, cache |-> c.cache]
    ELSE IF key \notin DOMAIN c.files THEN [ret |-> FALSE, cache |-> c.cache]
    ELSE IF c.now - c.files[key].mtime <= c.timeout THEN [ret |-> FALSE, cache |-> c.cache]
    ELSE [ret |-> TRUE, cache |-> Without(c.cache, {key})]

\* keys(): has_expired for each file of the directory, which drops the
\* expired ones from _cache; the others are the answer
keys(c) ==
    [ret |-> {k \in DOMAIN c.files : ~has_expired(c, k).ret},
     cache |-> Without(c.cache, {k \in DOMAIN c.files : has_expired(c, k).ret})]

\* get(key): the value or KeyError, and _cache after it
get(c, key) ==
    IF key \in DOMAIN c.cache
    THEN [raised |-> FALSE, ret |-> c.cache[key], cache |-> c.cache]
    ELSE IF has_expired(c, key).ret \/ key \notin DOMAIN c.files
    THEN [raised |-> TRUE, ret |-> "KeyError", cache |-> c.cache]
    ELSE [raised |-> FALSE, ret |-> c.files[key].value,
          cache |-> Extend(c.cache, key, c.files[key].value)]

\* contains(key)
contains(c, key) ==
    IF key \in DOMAIN c.cache THEN [ret |-> TRUE, cache |-> c.cache]
    ELSE IF has_expired(c, key).ret THEN [ret |-> FALSE, cache |-> c.cache]
    ELSE [ret |-> key \in DOMAIN c.files, cache |-> c.cache]

\* the cache plugin is built over a directory a former run may have filled
InitCache ==
    /\ ResolverIdle
    /\ StrategyIdle
    /\ tr = [op |-> "none"]
    /\ ch = [op |-> "none"]
    /\ \E timeout \in Timeouts,
          files \in {<<>>, Extend(<<>>, "h1", [value |-> "v1", mtime |-> 0])} :
         fc = [op |-> "init", timeout |-> timeout, cache |-> <<>>, files |-> files,
               now |-> 0, known |-> <<>>, key |-> "", before |-> <<>>,
               raised |-> FALSE, ret |-> "None"]

CacheFrame == UNCHANGED <<ivars, svars, gvars, tr, ch>>

call_cache_set(key, value) ==
    /\ fc.op # "none"
    /\ fc' = [fc EXCEPT !.op = "set", !.key = key, !.before = fc.known,
                        !.cache = Extend(fc.cache, key, value),
                        !.files = Extend(fc.files, key, [value |-> value, mtime |-> fc.now]),
                        !.known = Extend(fc.known, key, value),
                        !.raised = FALSE, !.ret = "None"]
    /\ CacheFrame

call_cache_get(key) ==
    /\ fc.op # "none"
    /\ \E r \in {get(fc, key)} :
         fc' = [fc EXCEPT !.op = "get", !.key = key, !.before = fc.known,
                         !.cache = r.cache,
                         !.known = IF r.raised THEN fc.known ELSE Extend(fc.known, key, r.ret),
                         !.raised = r.raised, !.ret = r.ret]
    /\ CacheFrame

call_cache_contains(key) ==
    /\ fc.op # "none"
    /\ \E r \in {contains(fc, key)} :
         fc' = [fc EXCEPT !.op = "contains", !.key = key, !.before = fc.known,
                         !.cache = r.cache, !.raised = FALSE, !.ret = r.ret]
    /\ CacheFrame

call_cache_keys ==
    /\ fc.op # "none"
    /\ \E r \in {keys(fc)} :
         fc' = [fc EXCEPT !.op = "keys", !.key = "", !.before = fc.known,
                         !.cache = r.cache, !.raised = FALSE, !.ret = r.ret]
    /\ CacheFrame

\* copy(): get(key) for each key of keys(); none of them has expired, so
\* each is in _cache or is loaded from its file
call_cache_copy ==
    /\ fc.op # "none"
    /\ \E r \in {keys(fc)} :
         \E d \in {[k \in r.ret |-> IF k \in DOMAIN r.cache THEN r.cache[k]
                                                         ELSE fc.files[k].value]} :
           fc' = [fc EXCEPT !.op = "copy", !.key = "", !.before = fc.known,
                           !.cache = [k \in DOMAIN r.cache \cup r.ret |->
                                         IF k \in DOMAIN r.cache THEN r.cache[k] ELSE d[k]],
                           !.known = [k \in DOMAIN fc.known \cup r.ret |->
                                         IF k \in r.ret THEN d[k] ELSE fc.known[k]],
                           !.raised = FALSE, !.ret = d]
    /\ CacheFrame

call_cache_delete(key) ==
    /\ fc.op # "none"
    /\ fc' = [fc EXCEPT !.op = "delete", !.key = key, !.before = fc.known,
                        !.cache = Without(fc.cache, {key}),
                        !.files = Without(fc.files, {key}),
                        !.known = Without(fc.known, {key}),
                        !.raised = FALSE, !.ret = "None"]
    /\ CacheFrame

\* flush(): _cache is emptied, then delete(key) for each key of keys()
call_cache_flush ==
    /\ fc.op # "none"
    /\ \E r \in {keys([fc EXCEPT !.cache = <<>>])} :
         fc' = [fc EXCEPT !.op = "flush", !.key = "", !.before = fc.known,
                         !.cache = <<>>,
                         !.files = Without(fc.files, r.ret),
                         !.known = <<>>,
                         !.raised = FALSE, !.ret = "None"]
    /\ CacheFrame

\* time passes
cache_tick ==
    /\ fc.op # "none"
    /\ fc.now < MaxTime
    /\ fc' = [fc EXCEPT !.op = "tick", !.key = "", !.before = fc.known, !.now = fc.now + 1,
                        !.raised = FALSE, !.ret = "None"]
    /\ CacheFrame

NextCache ==
    \/ \E key \in CacheKeys, value \in CacheValues : call_cache_set(key, value)
    \/ \E key \in CacheKeys : call_cache_get(key)
    \/ \E key \in CacheKeys : call_cache_contains(key)
    \/ call_cache_keys
    \/ call_cache_copy
    \/ \E key \in CacheKeys : call_cache_delete(key)
    \/ call_cache_flush
    \/ cache_tick

SpecCache == InitCache /\ [][NextCache]_vars

-----------------------------------------------------------------------------
(* The hand-off of results, step by step: the workers put results on       *)
(* _final_q, the reader thread moves them to the deque _results under      *)
(* _results_lock, the driver pops them under the same lock. Results are    *)
(* numbered in the order they arrive on the channel; 0 is the sentinel.    *)

MaxResults == 3

Sentinel == 0

lock_free_always(c) == TRUE

\* _results_lock.acquire() returns when no thread holds the lock
lock_free(c) == c.lock = "free"

\* the strategy is built: empty deque, lock free, the reader thread started
InitChannel ==
    /\ ResolverIdle
    /\ StrategyIdle
    /\ tr = [op |-> "none"]
    /\ fc = [op |-> "none"]
    /\ ch = [op |-> "init", final_q |-> <<>>, results |-> <<>>, lock |-> "free",
             rpc |-> "get", held |-> 0, dpc |-> "idle", taken |-> <<>>,
             queued |-> 0, put |-> 0, pending |-> 0, terminated |-> FALSE,
             sent |-> FALSE]

ChannelFrame == UNCHANGED <<ivars, svars, gvars, tr, fc>>

\* _queue_task: a unit of work is given to a worker
ch_queue_task ==
    /\ ch.dpc = "idle"
    /\ ~ch.terminated
    /\ ch.queued < MaxResults
    /\ ch' = [ch EXCEPT !.op = "queue", !.queued = @ + 1, !.pending = @ + 1]
    /\ ChannelFrame

\* a worker puts its result on the channel
ch_worker_put ==
    /\ ch.op # "none"
    /\ ch.put < ch.queued
    /\ ch' = [ch EXCEPT !.op = "put", !.put = @ + 1, !.final_q = Append(@, ch.put + 1)]
    /\ ChannelFrame

\* results_thread_main: _final_q.get() returns; the sentinel ends the thread
reader_get ==
    /\ ch.rpc = "get"
    /\ ch.final_q # <<>>
    /\ ch' = [ch EXCEPT !.op = "reader_get", !.final_q = Tail(@),
                        !.held = Head(ch.final_q),
                        !.rpc = IF Head(ch.final_q) = Sentinel THEN "done" ELSE "acquire"]
    /\ ChannelFrame

\* results_thread_main: _results_lock.acquire()
reader_acquire ==
    /\ ch.rpc = "acquire"
    /\ lock_free(ch)
    /\ ch' = [ch EXCEPT !.op = "reader_acquire", !.lock = "reader", !.rpc = "append"]
    /\ ChannelFrame

\* results_thread_main: _results.append(result)
reader_append ==
    /\ ch.rpc = "append"
    /\ ch' = [ch EXCEPT !.op = "reader_append", !.results = Append(@, ch.held),
                        !.rpc = "release"]
    /\ ChannelFrame

\* results_thread_main: _results_lock.release()
reader_release ==
    /\ ch.rpc = "release"
    /\ ch' = [ch EXCEPT !.op = "reader_release", !.lock = "free", !.rpc = "get"]
    /\ ChannelFrame

\* _process_pending_results, a turn of its loop: _results_lock.acquire()
driver_acquire ==
    /\ ch.dpc = "idle"
    /\ lock_free(ch)
    /\ ch' = [ch EXCEPT !.op = "driver_acquire", !.lock = "driver", !.dpc = "pop"]
    /\ ChannelFrame

\* _process_pending_results: _results.popleft(), or IndexError on an empty deque
driver_popleft ==
    /\ ch.dpc = "pop"
    /\ ch' = IF ch.results = <<>>
             THEN [ch EXCEPT !.op = "driver_empty", !.dpc = "release"]
             ELSE [ch EXCEPT !.op = "driver_popleft", !.results = Tail(@),
                             !.taken = Append(@, Head(ch.results)),
                             !.pending = @ - 1, !.dpc = "release"]
    /\ ChannelFrame

\* _process_pending_results: finally, _results_lock.release()
driver_release ==
    /\ ch.dpc = "release"
    /\ ch' = [ch EXCEPT !.op = "driver_release", !.lock = "free", !.dpc = "idle"]
    /\ ChannelFrame

\* TaskQueueManager.terminate, at any moment before the cleanup
ch_terminate ==
    /\ ch.op # "none"
    /\ ~ch.terminated
    /\ ~ch.sent
    /\ ch' = [ch EXCEPT !.op = "terminate", !.terminated = TRUE]
    /\ ChannelFrame

\* the waits of the strategy are over: nothing is pending, or the run was
\* terminated
run_returned(c) == ~(c.pending > 0 /\ ~c.terminated)

\* cleanup(), called when the run of the strategy has returned and no task
\* is left to queue; the sentinel is put
cleanup_put ==
    /\ ch.dpc = "idle"
    /\ run_returned(ch)
    /\ ch.queued = MaxResults \/ ch.terminated
    /\ ch' = [ch EXCEPT !.op = "cleanup", !.final_q = Append(@, Sentinel),
                        !.sent = TRUE, !.dpc = "join"]
    /\ ChannelFrame

\* cleanup(): _results_thread.join() returns when the reader thread has ended
cleanup_join ==
    /\ ch.dpc = "join"
    /\ ch.rpc = "done"
    /\ ch' = [ch EXCEPT !.op = "join", !.dpc = "cleaned"]
    /\ ChannelFrame

ReaderStep == reader_get \/ reader_acquire \/ reader_append \/ reader_release

DriverTurn == driver_acquire \/ driver_popleft \/ driver_release

NextChannel ==
    \/ ch_queue_task
    \/ ch_worker_put
    \/ reader_get
    \/ reader_acquire
    \/ reader_append
    \/ reader_release
    \/ driver_acquire
    \/ driver_popleft
    \/ driver_release
    \/ ch_terminate
    \/ cleanup_put
    \/ cleanup_join

SpecChannel == InitChannel /\ [][NextChannel]_vars

\* the threads run: each of them takes its next step when it can, the
\* reader thread gets the lock when it is free again and again (the driver
\* sleeps between its turns), and the workers end
LiveChannel ==
    /\ SpecChannel
    /\ WF_vars(ReaderStep)
    /\ SF_vars(reader_acquire)
    /\ WF_vars(DriverTurn)
    /\ WF_vars(ch_worker_put)
    /\ WF_vars(cleanup_join)

\* patterns the callers of the cached resolver give, as strings and as lists
MemoPatterns ==
    {Str("w*"), Str("all"), Str("w:w1"), Str("w:w1,zz"), List(<<"w", "w1,zz">>)}

\* the limits a caller sets
MemoSubsets == {None, Some(Str("w")), Some(Str("w*"))}

\* the batches a caller restricts the inventory to
MemoRestrictions == {Some(<<>>), Some(<<"w">>), Some(<<"w1", "w*">>)}

\* the order values with a determined result
Orders == {"None", "sorted", "reverse_sorted"}

\* the resolver called with any pattern, flags and order while limits and
\* restrictions come and go and the caches are cleared
InitMemo ==
    /\ inv_hosts = HostUniverse
    /\ \E w \in {None, Some(<<"w1">>), Some(<<"w*", "w1">>)} :
         inv_groups = MakeGroups(inv_hosts, w)
    /\ g1 = "w"
    /\ g2 = "w1"
    /\ hosts_patterns_cache = <<>>
    /\ pattern_cache = <<>>
    /\ restriction = None
    /\ subset = None
    /\ ret = NoCall
    /\ ncalls = 0
    /\ StrategyIdle
    /\ UnitsIdle

NextMemo ==
    \/ \E pattern \in MemoPatterns, ignore_limits \in BOOLEAN,
          ignore_restrictions \in BOOLEAN, order \in Orders :
         call_get_hosts(pattern, ignore_limits, ignore_restrictions, order)
    \/ clear_caches
    \/ \E subset_pattern \in MemoSubsets : set_subset(subset_pattern)
    \/ \E hosts \in MemoRestrictions : restrict_to_hosts(hosts)
    \/ remove_restriction

SpecMemo == InitMemo /\ [][NextMemo]_vars

-----------------------------------------------------------------------------
(* The inventory under change: it is parsed again, reconciled, and given    *)
(* hosts and groups by the results of add_host and group_by tasks.          *)

\* number of operations on the inventory in one behaviour
MaxChanges == 2

\* the groups a result may name, and the one it may name as a parent
NewGroups == {"w", "db"}
ParentGroup == "db"

\* the hosts of the inventories that change, in the order a source defines them
ChangeHosts == <<"w1", "w">>

\* the terms the caller resolves while the inventory changes
ChangeTerms == {"w", "db"}

\* patterns the caller writes with the term a
ChangePatterns(a) == { <<Term("", a)>>, <<Term("", "all"), Term("!", a)>> }

\* Group(name)
NewGroup == [hosts |-> <<>>, child_groups |-> <<>>]

\* Group.get_hosts: the hosts of the child groups, then the group's own,
\* each host once
RECURSIVE Group_get_hosts(_, _)
RECURSIVE KidHosts(_, _)
Group_get_hosts(objs, name) ==
    DedupFrom(KidHosts(objs, objs[name].child_groups) \o objs[name].hosts, {})

KidHosts(objs, kids) ==
    IF kids = <<>> THEN <<>>
    ELSE Group_get_hosts(objs, Head(kids)) \o KidHosts(objs, Tail(kids))

\* what the resolver reads of the groups objs over the hosts hs, "ungrouped"
\* holding the list ungrouped
GroupsView(objs, hs, ungrouped) ==
    [g \in {"all", "ungrouped"} \cup DOMAIN objs |->
        IF g = "all" THEN hs
        ELSE IF g = "ungrouped" THEN ungrouped
        ELSE Group_get_hosts(objs, g)]

\* InventoryData.reconcile_inventory: "ungrouped" holds the hosts that are in
\* no other group
Reconciled(objs, hs) ==
    GroupsView(objs, hs,
               Filter(hs, LAMBDA h : \A g \in DOMAIN objs : ~InList(h, Group_get_hosts(objs, g))))

\* InventoryData.add_group: the group is created when it does not exist
add_group(objs, name) ==
    IF name \in DOMAIN objs THEN objs ELSE Extend(objs, name, NewGroup)

\* Group.add_host
Group_add_host(objs, name, h) ==
    IF InList(h, objs[name].hosts) THEN objs
    ELSE [objs EXCEPT ![name].hosts = Append(@, h)]

\* Group.add_child_group: a group that is a child already is not added again
add_child_group(objs, parent, name) ==
    IF InList(name, objs[parent].child_groups) THEN objs
    ELSE [objs EXCEPT ![parent].child_groups = Append(@, name)]

RECURSIVE add_groups(_, _)
add_groups(objs, names) ==
    IF names = <<>> THEN objs ELSE add_groups(add_group(objs, Head(names)), Tail(names))

RECURSIVE add_to_groups(_, _, _)
add_to_groups(objs, names, h) ==
    IF names = <<>> THEN objs
    ELSE add_to_groups(Group_add_host(add_group(objs, Head(names)), Head(names), h),
                       Tail(names), h)

RECURSIVE add_child_to(_, _, _)
add_child_to(objs, parents, name) ==
    IF parents = <<>> THEN objs
    ELSE add_child_to(add_child_group(objs, Head(parents), name), Tail(parents), name)

\* the groups an inventory source defines with the host list of the group "w"
SourceGroups(w) ==
    IF w.none THEN <<>> ELSE [g \in {"w"} |-> [hosts |-> w.list, child_groups |-> <<>>]]

\* the same test made on the names of the objects
name_among_objects_by_name(name, objects) == InList(name, objects)

\* "real_host.name not in group.get_hosts()" and "group_name not in
\* host.get_groups()" look for a name, a string, in a list of Host and of
\* Group objects: no object of the list equals it
name_among_objects(name, objects) == FALSE

\* the groups the host h is in
get_groups(objs, h) ==
    Filter(GroupOrder, LAMBDA g : g \in DOMAIN objs /\ InList(h, Group_get_hosts(objs, g)))

InitChange ==
    /\ \E hs \in SUBSET Range(ChangeHosts) :
         /\ hs # {}
         /\ inv_hosts = Subsequence(ChangeHosts, hs)
         /\ \E w \in {None} \cup {Some(l) : l \in DistinctLists(hs, MaxGroupHosts)} :
              /\ inv_objs = SourceGroups(w)
              /\ inv_groups = Reconciled(inv_objs, inv_hosts)
    /\ g1 \in ChangeTerms
    /\ g2 = "all"
    /\ hosts_patterns_cache = <<>>
    /\ pattern_cache = <<>>
    /\ restriction = None
    /\ subset = None
    /\ ret = NoCall
    /\ ncalls = 0
    /\ change = [op |-> "none", n |-> 0, changed |-> FALSE, ret |-> NoCall,
                 calls |-> 0]
    /\ StrategyIdle
    /\ tr = [op |-> "none"]
    /\ fc = [op |-> "none"]
    /\ ch = [op |-> "none"]

ChangeFrame ==
    UNCHANGED <<restriction, subset, ret, ncalls, g1, g2, svars, uvars>>

\* the other clearing the manager has, clear_pattern_cache
clear_pattern_cache_only(hpc, pc) == [hosts_patterns_cache |-> hpc, pattern_cache |-> <<>>]

\* clear_caches: the two caches it leaves
cleared_caches(hpc, pc) == [hosts_patterns_cache |-> <<>>, pattern_cache |-> <<>>]

Cleared == cleared_caches(hosts_patterns_cache, pattern_cache)

\* refresh_inventory: the caches are cleared, the inventory is a new
\* InventoryData and the sources are parsed again
refresh_inventory ==
    /\ change.n < MaxChanges
    /\ hosts_patterns_cache' = Cleared.hosts_patterns_cache
    /\ pattern_cache' = Cleared.pattern_cache
    /\ \E hs \in SUBSET Range(ChangeHosts) :
         /\ hs # {}
         /\ inv_hosts' = Subsequence(ChangeHosts, hs)
         /\ \E w \in {None} \cup {Some(l) : l \in DistinctLists(hs, MaxGroupHosts)} :
              /\ inv_objs' = SourceGroups(w)
              /\ inv_groups' = Reconciled(inv_objs', inv_hosts')
    /\ change' = [op |-> "refresh", n |-> change.n + 1, changed |-> FALSE, ret |-> ret,
                 calls |-> ncalls]
    /\ ChangeFrame

\* InventoryManager.reconcile_inventory: clear_caches, then the inventory's own
\* reconcile_inventory
reconcile_inventory ==
    /\ change.n < MaxChanges
    /\ hosts_patterns_cache' = Cleared.hosts_patterns_cache
    /\ pattern_cache' = Cleared.pattern_cache
    /\ inv_groups' = Reconciled(inv_objs, inv_hosts)
    /\ change' = [op |-> "reconcile", n |-> change.n + 1, changed |-> FALSE, ret |-> ret,
                 calls |-> ncalls]
    /\ UNCHANGED <<inv_hosts, inv_objs>>
    /\ ChangeFrame

\* _add_host(host_info): the host is added to "all" when the inventory does
\* not hold it, the groups named are created when they do not exist and are
\* given the host, and the inventory is reconciled
add_host_result(host_name, new_groups) ==
    /\ change.n < MaxChanges
    /\ inv_hosts' = IF InList(host_name, inv_hosts) THEN inv_hosts
                    ELSE Append(inv_hosts, host_name)
    /\ inv_objs' = add_to_groups(inv_objs, new_groups, host_name)
    /\ hosts_patterns_cache' = Cleared.hosts_patterns_cache
    /\ pattern_cache' = Cleared.pattern_cache
    /\ inv_groups' = Reconciled(inv_objs', inv_hosts')
    /\ change' = [op |-> "add_host", n |-> change.n + 1, changed |-> TRUE, ret |-> ret,
                 calls |-> ncalls]
    /\ ChangeFrame

\* _add_group(host, result_item): the groups named are created when they do
\* not exist, the group is made a child of its parents and is given the
\* host, and the inventory is reconciled when changed is set
add_group_result(host, group_name, parent_group_names) ==
    /\ change.n < MaxChanges
    /\ InList(host, inv_hosts)
    /\ \E o1 \in {add_groups(inv_objs, <<group_name>> \o parent_group_names)} :
       \E o2 \in {add_child_to(o1, parent_group_names, group_name)} :
       \E missing \in {~name_among_objects(host, Group_get_hosts(o2, group_name))} :
       \E o3 \in {IF missing THEN Group_add_host(o2, group_name, host) ELSE o2} :
       \E changed \in {\/ o1 # inv_objs
                       \/ missing
                       \/ ~name_among_objects(group_name, get_groups(inv_objs, host))} :
         /\ inv_objs' = o3
         /\ hosts_patterns_cache' = IF changed THEN Cleared.hosts_patterns_cache
                                    ELSE hosts_patterns_cache
         /\ pattern_cache' = IF changed THEN Cleared.pattern_cache ELSE pattern_cache
         /\ inv_groups' = IF changed THEN Reconciled(o3, inv_hosts)
                          ELSE GroupsView(o3, inv_hosts, inv_groups["ungrouped"])
         /\ change' = [op |-> "add_group", n |-> change.n + 1, changed |-> changed, ret |-> ret,
                 calls |-> ncalls]
    /\ UNCHANGED inv_hosts
    /\ ChangeFrame

NextChange ==
    \/ \E pattern \in ChangePatterns(g1) : call_get_hosts(ListOf(pattern), FALSE, FALSE, "None")
    \/ refresh_inventory
    \/ reconcile_inventory
    \/ \E host_name \in Range(ChangeHosts), new_groups \in {<<>>} \cup {<<g>> : g \in NewGroups} :
         add_host_result(host_name, new_groups)
    \/ \E host \in Range(ChangeHosts), group_name \in NewGroups,
          parent_group_names \in {<<>>, <<ParentGroup>>} :
         /\ group_name # ParentGroup \/ parent_group_names = <<>>
         /\ add_group_result(host, group_name, parent_group_names)

SpecChange == InitChange /\ [][NextChange]_vars

-----------------------------------------------------------------------------
(* Properties of the resolver, checked under SpecInv.                      *)

NoDuplicates(s) == \A i, j \in 1..Len(s) : i # j => s[i] # s[j]

\* the elements of s in the order they first occur
FirstSeen(s) ==
    LET keep == {i \in 1..Len(s) : \A j \in 1..(i - 1) : s[j] # s[i]}
    IN  [k \in 1..Cardinality(keep) |->
            s[CHOOSE i \in keep : Cardinality({j \in keep : j < i}) = k - 1]]

\* the hosts matched by the unprefixed term written name, resolved on its own
\* and without any cache
MatchOfTerm(name) ==
    IF InList(name, inv_hosts) THEN <<name>> ELSE enumerate_matches(name)

Called == ncalls > 0 /\ ~ret.ignore_limits /\ ~ret.ignore_restrictions

\* C7: get_hosts("g1,g2") for two unprefixed terms returns the hosts matched
\* by g1 followed by the hosts matched by g2 that are not already present, in
\* first-seen order, and names no host twice.
C7_PatternUnion ==
    (Called /\ Len(ret.pattern) = 2 /\ IsRegular(ret.pattern[1]) /\ IsRegular(ret.pattern[2]))
    => LET A == MatchOfTerm(ret.pattern[1].name)
           B == MatchOfTerm(ret.pattern[2].name)
       IN  /\ ret.hosts = FirstSeen(A \o B)
           /\ ret.hosts = FirstSeen(A) \o Filter(FirstSeen(B), LAMBDA h : h \notin Range(A))
           /\ NoDuplicates(ret.hosts)

\* a union whose second match list repeats a host of the first, brings new
\* hosts, and is in another order than the result
C7_Witness ==
    /\ Called /\ Len(ret.pattern) = 2
    /\ IsRegular(ret.pattern[1]) /\ IsRegular(ret.pattern[2])
    /\ LET A == MatchOfTerm(ret.pattern[1].name)
           B == MatchOfTerm(ret.pattern[2].name)
       IN  /\ Range(A) \cap Range(B) # {}
           /\ Range(B) \ Range(A) # {}
           /\ ret.hosts # FirstSeen(B)
           /\ Len(ret.hosts) = 3

\* C8: resolving "g1,!g2" yields the hosts matched by the term g1 that the
\* term g2 does not match, in g1's order, and "!g2,g1" yields the same list.
C8_PatternExclusion ==
    (Called /\ Len(ret.pattern) = 2
       /\ \E i \in 1..2 : IsRegular(ret.pattern[i]) /\ IsExclude(ret.pattern[3 - i]))
    => LET i == CHOOSE i \in 1..2 : IsRegular(ret.pattern[i])
           A == MatchOfTerm(ret.pattern[i].name)
           B == MatchOfTerm(ret.pattern[3 - i].name)
       IN  ret.hosts = FirstSeen(Filter(A, LAMBDA h : h \notin Range(B)))

\* C9: resolving "g1,&g2" yields the hosts matched by the term g1 that the
\* term g2 matches too, in g1's order, "&g2,g1" yields the same list, and
\* every & term is applied before any ! term.
C9_PatternIntersection ==
    /\ (Called /\ Len(ret.pattern) = 2
          /\ \E i \in 1..2 : IsRegular(ret.pattern[i]) /\ IsIntersection(ret.pattern[3 - i]))
       => LET i == CHOOSE i \in 1..2 : IsRegular(ret.pattern[i])
              A == MatchOfTerm(ret.pattern[i].name)
              B == MatchOfTerm(ret.pattern[3 - i].name)
          IN  ret.hosts = FirstSeen(Filter(A, LAMBDA h : h \in Range(B)))
    /\ Called
       => LET o == order_patterns(ret.pattern)
          IN  \A i, j \in 1..Len(o) : (IsExclude(o[i]) /\ IsIntersection(o[j])) => j < i

\* C10: an unprefixed term that is literally the name of an existing host
\* matches that host only: no group is expanded, no other host glob-matched.
C10_ExactMatchShortCircuit ==
    (Called /\ Len(ret.pattern) = 1 /\ IsRegular(ret.pattern[1])
       /\ InList(ret.pattern[1].name, inv_hosts))
    => ret.hosts = <<ret.pattern[1].name>>

\* the host literally named "w*" is asked for while the group "w" and other
\* hosts are there for the glob to match
C10_Witness ==
    /\ Called /\ ret.pattern = <<Term("", "w*")>>
    /\ InList("w*", inv_hosts) /\ InList("w1", inv_hosts)
    /\ "w" \in DOMAIN inv_groups /\ inv_groups["w"] # <<>>
    /\ ret.hosts = <<"w*">>

-----------------------------------------------------------------------------
(* Properties of the strategy, checked under Spec.                          *)

PlayHostSet == DOMAIN host_states

\* the step just taken processed a final result with this reading
ResultStep(step) == step.op = "result"

FailingResult(step) ==
    /\ ResultStep(step)
    /\ is_failed(step.payload)
    /\ ~TaskOf(step.task).ignore_errors

UnreachableResult(step) ==
    /\ ResultStep(step)
    /\ ~is_failed(step.payload)
    /\ is_unreachable(step.payload)

SuccessResult(step) ==
    /\ ResultStep(step)
    /\ ~is_failed(step.payload)
    /\ ~is_unreachable(step.payload)
    /\ ~is_skipped(step.payload)

\* C1: in every reachable state of a play each host has at most one task in
\* flight (queued, its final result not yet processed), and a host that has a
\* task in flight is blocked.
C1_OneInFlightPerHost ==
    \A h \in PlayHostSet :
        /\ InFlight(h) <= 1
        /\ InFlight(h) >= 1 => h \in blocked_hosts

\* C2: when the run of a handler within one flush is over, the handler was
\* dispatched exactly once to every host that had notified it, however many
\* times that host notified it, and so once to each of two notifying hosts.
C2_HandlerOncePerNotifier ==
    \A i \in flush.done : \A h \in Range(flush.snap[i]) : flush.disp[i][h] = 1

\* C2, as the code has it: a handler is dispatched at most once to a host
\* within one flush and only to hosts that had notified it; exactly once to
\* every notifying host when the handler is not run_once and the host is not
\* failed (or the play forces handlers); a run_once handler is dispatched to
\* one host at most.
C2_HandlerAtMostOnce ==
    \A i \in 1..Len(play.handlers) :
        /\ \A h \in PlayHostSet :
              /\ flush.disp[i][h] <= 1
              /\ flush.disp[i][h] = 1 => InList(h, flush.snap[i])
        /\ i \in flush.done =>
              /\ ~play.handlers[i].run_once =>
                    \A h \in Range(flush.snap[i]) :
                        (h \notin flush.failed[i] \/ play.force_handlers)
                            => flush.disp[i][h] = 1
              /\ play.handlers[i].run_once =>
                    Cardinality({h \in PlayHostSet : flush.disp[i][h] = 1}) <= 1

\* two hosts notified the handler, one of them by two tasks and twice by one
\* of them; the run of the handler is over and each host got it once
C2_Witness ==
    /\ 1 \in flush.done
    /\ ~play.handlers[1].run_once
    /\ Len(flush.snap[1]) = 2
    /\ \A h \in Range(flush.snap[1]) : flush.disp[1][h] = 1
    /\ \E h \in Range(flush.snap[1]) : stats[h].changed >= 2

\* C3: processing a failed final result of a task without ignore_errors and
\* without run_once marks its host failed and leaves the iterator state, the
\* failed and unreachable membership and the failure count of every other
\* host as they were, so the others stay in get_hosts_remaining().
C3_FailureIsolation ==
    [][ (FailingResult(last') /\ ~TaskOf(last'.task).run_once)
        => /\ host_states'[last'.host] = mark_host_failed(host_states[last'.host])
           /\ stats'[last'.host].failures = stats[last'.host].failures + 1
           /\ \A h \in PlayHostSet \ {last'.host} :
                 /\ host_states'[h] = host_states[h]
                 /\ h \in failed_hosts' <=> h \in failed_hosts
                 /\ h \in unreachable_hosts' <=> h \in unreachable_hosts
                 /\ stats'[h] = stats[h]
                 /\ InList(h, get_hosts_remaining) => InList(h, get_hosts_remaining') ]_vars

\* the task of h2 failed among three hosts; h2 is failed, h1 and h3 remain
\* and have a task to receive
C3_Witness ==
    /\ FailingResult(last) /\ ~TaskOf(last.task).run_once
    /\ last.host = "h2"
    /\ "h2" \in failed_hosts
    /\ iterator_is_failed("h2")
    /\ \A h \in {"h1", "h3"} :
          /\ InList(h, get_hosts_remaining)
          /\ ~iterator_is_failed(h)
          /\ next_task(host_states[h]) # NoTask

\* C4: a host whose result was processed as unreachable is absent from
\* get_hosts_remaining(), get_hosts_left() and the run-once target list in
\* every later state, whatever operations follow, and keeps its dark count.
C4_UnreachableForever ==
    \A h \in Range(removed_hosts) :
        /\ ~InList(h, get_hosts_remaining)
        /\ ~InList(h, get_hosts_left)
        /\ \A t \in Range(play.tasks) : t.run_once => ~InList(h, get_task_hosts(h, t))
        /\ stats[h].dark >= 1

\* the step just taken was a clear_host_errors whose conditional held
ClearedErrors(step) == step.op = "clear_host_errors" /\ ~step.payload.skipped

\* C4, as the code has it: a result processed as unreachable puts the host
\* among the unreachable hosts; every step other than a clear_host_errors
\* whose conditional holds keeps it there, and while it is there the host is
\* absent from get_hosts_remaining(), get_hosts_left() and the run-once
\* target list; the dark count of a host never decreases.
C4_UnreachableUntilCleared ==
    [][ /\ UnreachableResult(last') =>
              /\ last'.host \in unreachable_hosts'
              /\ stats'[last'.host].dark = stats[last'.host].dark + 1
        /\ \A h \in PlayHostSet :
              /\ (h \in unreachable_hosts /\ ~ClearedErrors(last'))
                    => h \in unreachable_hosts'
              /\ h \in unreachable_hosts' =>
                    /\ ~InList(h, get_hosts_remaining')
                    /\ ~InList(h, get_hosts_left')
                    /\ \A t \in Range(play.tasks) :
                          t.run_once => ~InList(h, get_task_hosts(h, t)')
                    /\ stats'[h].dark >= 1
              /\ stats'[h].dark >= stats[h].dark ]_vars

\* a host is unreachable, a clear_host_errors whose conditional did not hold
\* has just run, and the host is still set aside with its dark count
C4_Witness ==
    /\ last.op = "clear_host_errors" /\ last.payload.skipped
    /\ \E h \in unreachable_hosts :
          /\ h # last.host
          /\ ~InList(h, get_hosts_remaining)
          /\ stats[h].dark = 1

\* C5: when the successful result of a run_once task returns facts, every
\* play host that is not unreachable has those fact values afterwards, and
\* the other hosts keep theirs.
C5_RunOnceFactBroadcast ==
    [][ (SuccessResult(last') /\ TaskOf(last'.task).run_once /\ last'.payload.facts # "")
        => \A h \in DOMAIN facts :
              facts'[h] = IF InList(h, play_hosts.hosts) /\ h \notin unreachable_hosts
                          THEN last'.payload.facts ELSE facts[h] ]_vars

\* the run_once task ran on one host and returned a fact; three hosts have it
C5_Witness ==
    /\ SuccessResult(last) /\ TaskOf(last.task).run_once /\ last.payload.facts = "b"
    /\ Len(play_hosts.hosts) = 3
    /\ \A h \in Range(play_hosts.hosts) : facts[h] = "b"
    /\ Cardinality({h \in PlayHostSet : <<h, last.task>> \in queued_task_cache}) = 1

\* C6: when the final result of a run_once task is processed, the ok counter
\* of every target host of the play is incremented, and the changed counter
\* too if the result is changed.
C6_RunOnceCountersBroadcast ==
    [][ (SuccessResult(last') /\ TaskOf(last'.task).run_once)
        => \A h \in Range(get_task_hosts(last'.host, TaskOf(last'.task))) :
              /\ stats'[h].ok = stats[h].ok + 1
              /\ last'.payload.changed => stats'[h].changed = stats[h].changed + 1 ]_vars

\* C6, as the code has it: the custom statistics a run_once result carries
\* are set for every target host of the play, while the ok and changed
\* counters are incremented for the host that executed the task only.
C6_RunOnceCustomStatsBroadcast ==
    [][ (SuccessResult(last') /\ TaskOf(last'.task).run_once)
        => \A h \in DOMAIN stats :
              /\ (last'.payload.stats # "" /\ InList(h, play_hosts.hosts)
                    /\ h \notin unreachable_hosts)
                    => custom_stats'[h] = last'.payload.stats
              /\ stats'[h].ok = stats[h].ok + (IF h = last'.host THEN 1 ELSE 0)
              /\ stats'[h].changed =
                    stats[h].changed + (IF h = last'.host /\ last'.payload.changed
                                        THEN 1 ELSE 0) ]_vars

\* the run_once task ran on one host, changed, and carried custom statistics:
\* three hosts have them, one host has the ok and changed counts
C6_Witness ==
    /\ SuccessResult(last) /\ TaskOf(last.task).run_once
    /\ last.payload.changed /\ last.payload.stats = "s"
    /\ \A h \in Range(play_hosts.hosts) : custom_stats[h] = "s"
    /\ \A h \in Range(play_hosts.hosts) :
          /\ stats[h].ok = (IF h = last.host THEN 1 ELSE 0)
          /\ stats[h].changed = (IF h = last.host THEN 1 ELSE 0)
    /\ Len(play_hosts.hosts) = 3

-----------------------------------------------------------------------------
(* Properties of subscripted terms, checked under SpecSub.                  *)

\* the single-term call just made asked for the term written n
AskedFor(n) == Called /\ ret.pattern = <<Term("", n)>>

\* the match list of the term "db": the hosts of the group, in its order
DbList == inv_groups["db"]

\* the elements of l at the 0-based positions a through b
Positions(l, a, b) ==
    [k \in 1..(IF b < Len(l) THEN b - a + 1 ELSE Len(l) - a) |-> l[a + k]]

\* C11: with the group db listing db1, db2, db3, db4 in that order, the
\* pattern db[1:3] resolves to db1, db2, db3.
C11_RangeExample ==
    (AskedFor("db[1:3]") /\ DbList = DbHosts) => ret.hosts = <<"db1", "db2", "db3">>

\* C11, as the code has it: a range subscript counts positions from 0 and
\* includes both ends, so db[1:3] resolves to the second through the fourth
\* host of the group's list (fewer when the list is shorter), which for the
\* list db1, db2, db3, db4 is db2, db3, db4; [1-3] reads the same.
C11_RangeZeroBased ==
    (AskedFor("db[1:3]") \/ AskedFor("db[1-3]"))
    => /\ ~ret.error
       /\ ret.hosts = Positions(DbList, 1, 3)
       /\ DbList = DbHosts => ret.hosts = <<"db2", "db3", "db4">>

\* db[1:3] was resolved on the group db1, db2, db3, db4
C11_Witness ==
    /\ AskedFor("db[1:3]")
    /\ DbList = DbHosts
    /\ ret.hosts = <<"db2", "db3", "db4">>

\* C12: a term with a single negative index is rejected with an error and
\* selects no host, and an open-ended range db[a:] resolves to the elements
\* from position a through the last one.
C12_NegativeIndexRejected ==
    /\ (AskedFor("db[-1]") \/ AskedFor("db[-3]")) => (ret.error /\ ret.hosts = <<>>)
    /\ AskedFor("db[1:]") => (~ret.error /\ ret.hosts = Positions(DbList, 1, Len(DbList) - 1))
    /\ AskedFor("db[0:]") => (~ret.error /\ ret.hosts = DbList)

\* C12, as the code has it: a single negative index db[-k] is accepted and
\* selects the k-th host from the end of the match list; it is an error only
\* when the list is not empty and has fewer than k hosts, and an empty list
\* stays empty.  An open-ended range db[a:] resolves to the elements from the
\* 0-based position a through the last one.
C12_NegativeIndexFromEnd ==
    /\ \A k \in {1, 3} :
          AskedFor(IF k = 1 THEN "db[-1]" ELSE "db[-3]")
          => IF DbList = <<>> THEN ~ret.error /\ ret.hosts = <<>>
             ELSE IF Len(DbList) < k THEN ret.error
             ELSE ~ret.error /\ ret.hosts = <<DbList[Len(DbList) - k + 1]>>
    /\ AskedFor("db[1:]") => (~ret.error /\ ret.hosts = Positions(DbList, 1, Len(DbList) - 1))
    /\ AskedFor("db[0:]") => (~ret.error /\ ret.hosts = DbList)

\* db[-1] was resolved on a group of four hosts and returned the last one
C12_Witness ==
    /\ AskedFor("db[-1]")
    /\ Len(DbList) = 4
    /\ ~ret.error
    /\ ret.hosts = <<DbList[4]>>

-----------------------------------------------------------------------------
(* The caches of the resolver, checked under SpecMemo.                      *)

\* the loop of _evaluate_patterns with every term matched afresh
RECURSIVE fresh_loop(_, _)
fresh_loop(ps, hosts) ==
    IF ps = <<>> THEN [hosts |-> hosts, error |-> FALSE]
    ELSE IF is_plain_host(Head(ps))
         THEN fresh_loop(Tail(ps), Append(hosts, Head(ps).name))
         ELSE Bind(match_one_pattern(Head(ps), <<>>), LAMBDA m :
                  IF m.error THEN [hosts |-> <<>>, error |-> TRUE]
                  ELSE fresh_loop(Tail(ps), apply_term(Head(ps), hosts, m.hosts)))

\* what get_hosts computes for its arguments and the active subset and
\* restriction when it consults no cache
CacheFree(pattern, ignore_limits, ignore_restrictions, order) ==
    Bind(fresh_loop(order_patterns(split_host_pattern(pattern)), <<>>), LAMBDA e1 :
        Bind(IF ~e1.error /\ ~ignore_limits /\ Truthy(subset)
             THEN fresh_loop(order_patterns(subset.list), <<>>)
             ELSE e1, LAMBDA e2 :
            [hosts |-> IF e2.error THEN <<>>
                       ELSE apply_order(
                                DedupFrom(
                                    Filter(e1.hosts, LAMBDA h :
                                        /\ h \in Range(e2.hosts)
                                        /\ (~ignore_restrictions /\ Truthy(restriction))
                                              => h \in Range(restriction.list)), {}),
                                order),
             error |-> e2.error]))

\* C13: every get_hosts call returns the list a cache-free evaluation returns
\* for its pattern, flags and order and the subset and restriction active at
\* the call, whatever calls were made before it.
C13_CachePureMemoization ==
    [][ncalls' = ncalls + 1
       => \E cf \in {CacheFree(ret'.given, ret'.ignore_limits,
                               ret'.ignore_restrictions, ret'.order)} :
             /\ ret'.error = cf.error
             /\ ret'.hosts = cf.hosts]_vars

-----------------------------------------------------------------------------
(* The exit status and the failure branches, checked under Spec.            *)

\* run() has returned
Returned == drv.pc = "done" /\ drv.caller = "run"

\* the hosts lost, and the hosts failed in the iterator, when the handler
\* phase began or when it ended
LostAtExit == drv.unreachable_before \cup unreachable_hosts

FailedAtExit == drv.failed_before \cup get_failed_hosts

\* C14: when run() is given RUN_OK, it returns RUN_ERROR if the handler run
\* failed; else RUN_UNREACHABLE_HOSTS if a host was unreachable when the
\* handler phase began or ended, even if other hosts failed; else
\* RUN_FAILED_HOSTS if a host was failed then; else RUN_OK.
C14_ExitStatusWorstOutcome ==
    (Returned /\ drv.result = RUN_OK)
    => drv.rc = IF drv.handler_result = "False" THEN RUN_ERROR
                ELSE IF LostAtExit # {} THEN RUN_UNREACHABLE_HOSTS
                ELSE IF FailedAtExit # {} THEN RUN_FAILED_HOSTS
                ELSE RUN_OK

\* run() given RUN_OK returned RUN_UNREACHABLE_HOSTS with one host lost and
\* another failed
C14_Witness ==
    /\ Returned
    /\ drv.result = RUN_OK
    /\ drv.handler_result # "False"
    /\ LostAtExit # {}
    /\ FailedAtExit # {}
    /\ drv.rc = RUN_UNREACHABLE_HOSTS

\* C15: processing a failed final result of a run_once task without
\* ignore_errors marks every host of the play that is not unreachable failed
\* in the iterator, not only the host that ran the task, leaves the iterator
\* state of the unreachable hosts alone, and adds one to the failures of the
\* host that ran the task.
C15_RunOnceFailureBroadcast ==
    [][ (FailingResult(last') /\ TaskOf(last'.task).run_once)
        => /\ \A h \in PlayHostSet \ unreachable_hosts :
                 /\ host_states'[h] = mark_host_failed(host_states[h])
                 /\ play.rescue = <<>> => iterator_is_failed(h)'
           /\ \A h \in PlayHostSet \cap unreachable_hosts :
                 host_states'[h] = host_states[h]
           /\ stats'[last'.host].failures = stats[last'.host].failures + 1 ]_vars

\* among three hosts one was lost, then the run_once task failed on another:
\* the two hosts that were not lost are failed, the lost one is not
C15_Witness ==
    /\ FailingResult(last) /\ TaskOf(last.task).run_once
    /\ Cardinality(unreachable_hosts) = 1
    /\ \A h \in PlayHostSet :
          iterator_is_failed(h) <=> h \notin unreachable_hosts
    /\ Cardinality(PlayHostSet \ unreachable_hosts) = 2
    /\ stats[last.host].failures = 1

\* the step just taken processed a failed final result of a task that has
\* ignore_errors
IgnoredFailure(step) ==
    /\ ResultStep(step)
    /\ is_failed(step.payload)
    /\ TaskOf(step.task).ignore_errors

\* C16: processing a failed final result of a task with ignore_errors leaves
\* the iterator state of every host and the failed-host set as they were,
\* leaves the failures of the host alone, adds one to its ok count, and one to
\* its changed count exactly when the result is changed, and sends the
\* failure callback with ignore_errors set.
C16_IgnoredFailure ==
    [][ IgnoredFailure(last')
        => /\ host_states' = host_states
           /\ failed_hosts' = failed_hosts
           /\ stats'[last'.host].failures = stats[last'.host].failures
           /\ stats'[last'.host].ok = stats[last'.host].ok + 1
           /\ stats'[last'.host].changed =
                  stats[last'.host].changed + (IF is_changed(last'.payload) THEN 1 ELSE 0)
           /\ last'.callback = [name |-> "v2_runner_on_failed", ignore_errors |-> TRUE] ]_vars

\* a failed and changed result of a task with ignore_errors was processed:
\* the host counts one ok and one changed, no failure, and is not failed
C16_Witness ==
    /\ IgnoredFailure(last)
    /\ is_changed(last.payload)
    /\ stats[last.host].ok = 1
    /\ stats[last.host].changed = 1
    /\ stats[last.host].failures = 0
    /\ ~iterator_is_failed(last.host)
    /\ last.host \notin failed_hosts
    /\ last.callback.name = "v2_runner_on_failed"
    /\ last.callback.ignore_errors

\* C17: processing a final result whose payload reports unreachable adds the
\* host to the unreachable set and to the removed hosts of the play and adds
\* one to its dark count, whatever ignore_errors the task has and whatever
\* other status key the payload carries.
C17_UnreachableNeverSuppressed ==
    [][ (ResultStep(last') /\ is_unreachable(last'.payload))
        => /\ last'.host \in unreachable_hosts'
           /\ removed_hosts' = Append(removed_hosts, last'.host)
           /\ stats'[last'.host].dark = stats[last'.host].dark + 1 ]_vars

-----------------------------------------------------------------------------
(* Waiting, checked under LiveWait, SpecWait and SpecWaitDriver.            *)

\* the driver is in the loop of _wait_on_pending_results
InWait == drv.pc \in {"hd_wait", "hd_proc"}

\* _wait_on_pending_results has just returned
WaitReturned == last.op = "handler_run_done"

\* the driver was stopped by an exception
Raised == drv.pc = "error"

\* the hosts the handler whose wait has just returned was queued for
WaitedFor == {h \in PlayHostSet : flush.disp[last.task.idx][h] = 1}

\* what the wait returns: pending_results is zero and the returned list holds
\* one final result for each host the handler was queued for, and no other
ReturnComplete ==
    /\ pending_results = 0
    /\ Len(drv.ret_results) = Cardinality(WaitedFor)
    /\ \A h \in WaitedFor :
          \E k \in 1..Len(drv.ret_results) :
              /\ drv.ret_results[k].host = h
              /\ drv.ret_results[k].task = last.task

\* C18: when every started worker sends its result, no worker dies and the
\* terminated flag stays clear, a wait on pending results that has begun
\* returns, with pending_results zero and every final result processed
\* during the wait in the list it returns.
C18_WaitReturns ==
    /\ InWait ~> WaitReturned
    /\ [](WaitReturned => ReturnComplete)

\* C18, as the code has it: under the same conditions a wait that has begun
\* returns, with pending_results zero and every final result processed during
\* the wait in the list it returns, or it is ended by the exception that the
\* processing of one of the results raises.
C18_WaitReturnsOrRaises ==
    /\ InWait ~> (WaitReturned \/ Raised)
    /\ [](WaitReturned => ReturnComplete)

\* the wait for the handler queued on three hosts returned their three results
C18_Witness ==
    /\ WaitReturned
    /\ Cardinality(WaitedFor) = 3
    /\ Len(drv.ret_results) = 3
    /\ pending_results = 0

\* C19: a turn of the wait that finds pending_results above zero, the
\* terminated flag clear and a dead worker ends the wait with an exception:
\* it does not go on waiting, does not return, and processes none of the
\* results that are in the deque.
C19_DeadWorkerFatal ==
    [][ (drv.pc = "hd_wait" /\ pending_results > 0 /\ ~terminated /\ has_dead_workers
           /\ drv' # drv)
        => /\ drv'.pc = "error"
           /\ last'.op = "wait_raise"
           /\ results' = results
           /\ pending_results' = pending_results ]_vars

\* the wait was ended by a dead worker while a result was in the deque
C19_Witness ==
    /\ last.op = "wait_raise"
    /\ Raised
    /\ has_dead_workers
    /\ results # <<>>
    /\ pending_results > 0

\* the driver is in a loop that waits: for pending results, or in _queue_task
\* for a worker slot
InWaitLoop == drv.pc \in {"hd_wait", "hd_proc", "queue"}

\* C20: once the terminated flag is set, a driver that is in a wait loop
\* leaves it by its own steps, without any step of a worker, and no step of
\* the driver changes a worker that is running.
C20_TerminatedLeavesWaits ==
    /\ (terminated /\ InWaitLoop) ~> ~InWaitLoop
    /\ [][ (terminated /\ drv' # drv)
           => \A i \in 1..NumWorkers : workers[i].alive => workers'[i] = workers[i] ]_vars

-----------------------------------------------------------------------------
(* The Notification Ledger.                                                *)

\* C21: in every reachable state the ledger entry of each handler holds no
\* host twice, whether the host came in by the handler's name, by the name of
\* an include up its parent chain or by a topic it listens to, and whatever
\* results were processed since the last flush.
C21_LedgerNoDuplicates ==
    \A i \in DOMAIN notified_handlers : NoDuplicates(notified_handlers[i])

\* a host changed two tasks, the first of which notified the handler by an
\* include's name, by a topic and by its own name; both hosts are in the entry
C21_Witness ==
    /\ play = PlayParents
    /\ last.op = "result"
    /\ Len(notified_handlers[1]) = 2
    /\ Len(notified_handlers[2]) = 2
    /\ stats[last.host].changed = 2

\* the names of the notify list of the task that no handler answers to by its
\* name, by a parent or by a topic
MissingNames(task) ==
    {task.notify[k] : k \in {j \in 1..Len(task.notify) : ~handler_found(task.notify[j])}}

\* the step just taken processed a changed successful result one of whose
\* notification names reaches no handler
LookupMiss(step) ==
    /\ SuccessResult(step)
    /\ is_changed(step.payload)
    /\ MissingNames(TaskOf(step.task)) # {}

\* the handlers reached by the names of the list from position a on
Reached(task, a) ==
    UNION {named_handlers(task.notify[k]) \cup listening_handlers(task.notify[k]) :
             k \in a..Len(task.notify)}

\* C22: a changed successful result with a notification name that reaches no
\* handler makes result processing raise when missing-handler errors are
\* enabled: the result is not counted and no callback is sent for it. When
\* they are disabled a warning is all: the result is counted, the ok
\* callback is sent, every handler reached by another name of the list,
\* before or after the missing one, gets the host, and no other entry
\* changes.
C22_HandlerLookupMiss ==
    [][ LookupMiss(last')
        => IF ERROR_ON_MISSING_HANDLER
           THEN /\ drv'.pc = "error"
                /\ ~last'.warned
                /\ last'.callback = NoCallback
                /\ pending_results' = pending_results
                /\ stats' = stats
           ELSE /\ drv'.pc = drv.pc
                /\ last'.warned
                /\ last'.callback.name = "v2_runner_on_ok"
                /\ pending_results' = pending_results - 1
                /\ stats'[last'.host].ok = stats[last'.host].ok + 1
                /\ \A i \in DOMAIN notified_handlers :
                      IF i \in Reached(TaskOf(last'.task), 1)
                      THEN InList(last'.host, notified_handlers'[i])
                      ELSE notified_handlers'[i] = notified_handlers[i] ]_vars

\* with warnings only, the result that notified "restart", "gone" and "late"
\* was processed: the host is in the entries of restart and late
C22_Witness ==
    /\ LookupMiss(last)
    /\ ~ERROR_ON_MISSING_HANDLER
    /\ last.warned
    /\ InList(last.host, notified_handlers[1])
    /\ InList(last.host, notified_handlers[2])
    /\ drv.pc # "error"

\* with errors enabled, the same result raised
C22_WitnessRaise ==
    /\ LookupMiss(last)
    /\ ERROR_ON_MISSING_HANDLER
    /\ drv.pc = "error"

\* the positions of the hosts of the list taken at the start of the run of
\* handler i that the handler may be queued for
Eligible(i) ==
    {k \in 1..Len(flush.snap[i]) :
        flush.snap[i][k] \notin flush.failed[i] \/ play.force_handlers}

\* the hosts handler i was queued for in this flush
DispatchedTo(i) == {h \in PlayHostSet : flush.disp[i][h] > 0}

-----------------------------------------------------------------------------
(* Subscripts out of range, checked under SpecSub.                         *)

\* the subscript (start, end) lies outside a match list of n hosts: a single
\* index that is no position of the list, a range whose start or whose
\* written end is beyond the last position, any subscript when n is 0
OutOfRange(subscript, n) ==
    \/ n = 0
    \/ subscript.start >= n
    \/ ~subscript.has_end /\ subscript.start < 0 - n
    \/ subscript.has_end /\ subscript.end # -1 /\ subscript.end >= n

\* C24: a single-term call whose subscript lies outside the match list of
\* the term (a single index, a range with its start or end beyond the last
\* host, any subscript on an empty match list) raises the error "no hosts
\* matched the subscripted pattern" and returns no list.
C24_OutOfRangeFatal ==
    \A n \in SubTerms :
        (AskedFor(n) /\ ~split_subscript(n).subscript.none
                     /\ OutOfRange(split_subscript(n).subscript, Len(DbList)))
        => ret.error

-----------------------------------------------------------------------------
(* The subset and the restriction, checked under SpecMemo.                 *)

\* the hosts the terms of the active subset resolve to
SubsetHosts == Range(fresh_loop(order_patterns(subset.list), <<>>).hosts)

\* C25: while a restriction R is set, the empty list included, a get_hosts
\* call that does not ignore restrictions returns only hosts named in R, and
\* while a subset S is set a call that does not ignore limits returns only
\* hosts of the resolution of S.
C25_FiltersConstrain ==
    [][ (ncalls' = ncalls + 1 /\ ~ret'.error)
        => /\ (restriction # None /\ ~ret'.ignore_restrictions)
                  => Range(ret'.hosts) \subseteq Range(restriction.list)
           /\ (subset # None /\ ~ret'.ignore_limits)
                  => Range(ret'.hosts) \subseteq SubsetHosts ]_vars

-----------------------------------------------------------------------------
(* The order argument, checked under SpecOrder.                            *)

\* the list the call just made returns by default, in resolution order
DefaultList == CacheFree(ret.given, FALSE, FALSE, "None").hosts

Reverse(s) == [i \in 1..Len(s) |-> s[Len(s) + 1 - i]]

\* the names of s ascend
Ascending(s) == \A i, j \in 1..Len(s) : i < j => StrLess(Chars(s[i]), Chars(s[j]))

\* C26: a call with order 'reverse_inventory' returns the reverse of the
\* default list of its pattern; with 'sorted' it returns the hosts of the
\* default list with their names ascending, with 'reverse_sorted' with their
\* names descending.
C26_OrderOfResult ==
    (Called /\ ~CacheFree(ret.given, FALSE, FALSE, "None").error)
    => /\ ret.order = "reverse_inventory"
             => (~ret.error /\ ret.hosts = Reverse(DefaultList))
       /\ ret.order = "sorted"
             => /\ Range(ret.hosts) = Range(DefaultList)
                /\ Len(ret.hosts) = Len(DefaultList)
                /\ Ascending(ret.hosts)
       /\ ret.order = "reverse_sorted"
             => /\ Range(ret.hosts) = Range(DefaultList)
                /\ Len(ret.hosts) = Len(DefaultList)
                /\ Ascending(Reverse(ret.hosts))

-----------------------------------------------------------------------------
(* TaskResult.is_skipped, checked under SpecSkipped.                       *)

\* is_skipped() was called on a payload with a non-empty results list
LoopedSkipCall == tr.op = "is_skipped" /\ tr.result.results # <<>>

\* the element is a dict that has skipped set
ItemSkipped(item) == item.dict /\ item.skipped

-----------------------------------------------------------------------------
(* TaskResult.clean_copy, checked under SpecCopy.                          *)

\* the task is no_log, or the payload p has a true _ansible_no_log
NoLog(task, p) == task.no_log \/ ("_ansible_no_log" \in DOMAIN p /\ p["_ansible_no_log"])

\* C28: the clean copy of a no_log result holds the censored notice and
\* those of attempts, changed, retries, failed, unreachable, skipped that the
\* payload has, with the payload's values, and nothing else; any payload
\* that has the same of these keys with the same values yields the same
\* copy; and the payload of the original is what it was before the call.
C28_NoLogRevealsOnlyStatus ==
    tr.op = "clean_copy"
    => /\ tr.result = tr.given
       /\ NoLog(tr.task, tr.given)
             => /\ DOMAIN tr.ret = {"censored"} \cup (DOMAIN tr.given \cap PRESERVE)
                /\ tr.ret["censored"] = Censored
                /\ \A k \in DOMAIN tr.given \cap PRESERVE : tr.ret[k] = tr.given[k]
                /\ \A q \in CopyPayloads :
                      (/\ NoLog(tr.task, q)
                       /\ DOMAIN q \cap PRESERVE = DOMAIN tr.given \cap PRESERVE
                       /\ \A k \in DOMAIN q \cap PRESERVE : q[k] = tr.given[k])
                      => clean_copy(tr.task, q) = tr.ret

\* the copy of a payload with output, an invocation and a true
\* _ansible_no_log, of a task that is not no_log: the notice and changed
C28_Witness ==
    /\ tr.op = "clean_copy"
    /\ ~tr.task.no_log
    /\ {"stdout", "invocation", "changed", "_ansible_no_log"} \subseteq DOMAIN tr.given
    /\ tr.given["_ansible_no_log"]
    /\ DOMAIN tr.ret = {"censored", "changed"}

-----------------------------------------------------------------------------
(* BaseFileCacheModule, checked under SpecCache.                           *)

\* C29: a get(key) of a key that this process has set or read, and not
\* deleted or flushed since, returns the value it had, whatever calls of
\* get, contains, keys and copy came between and whatever time has passed.
C29_KnownKeyStaysReadable ==
    (fc.op = "get" /\ fc.key \in DOMAIN fc.before)
    => (~fc.raised /\ fc.ret = fc.before[fc.key])

\* with a timeout of 0, no key expires: a key that has its file is read
C29_ZeroTimeoutNeverExpires ==
    (fc.op = "get" /\ fc.timeout = 0 /\ (fc.key \in DOMAIN fc.before \/ fc.key \in DOMAIN fc.files))
    => ~fc.raised

\* a get(key) of a known key whose file is older than the timeout
C29_ReadAfterExpiry ==
    /\ fc.op = "get"
    /\ fc.key \in DOMAIN fc.before
    /\ fc.timeout # 0
    /\ fc.now - fc.files[fc.key].mtime > fc.timeout
    /\ ~fc.raised

-----------------------------------------------------------------------------
(* The counter of pending results, checked under Spec.                     *)

\* the units of work queued whose final result has not been processed: with
\* their worker, on the channel, in the deque, or taken from the deque by a
\* turn that an exception ended
Unprocessed ==
    Cardinality({i \in 1..NumWorkers : workers[i].alive})
    + Cardinality({k \in 1..Len(final_q) : final_q[k].payload.partial = "none"})
    + Cardinality({k \in 1..Len(results) : results[k].payload.partial = "none"})
    + drv.taken

\* C30: pending_results is never negative and is the number of units queued
\* whose final result has not been processed; a step that queues a unit adds
\* one, a step that processes a final result takes one, a step that
\* processes a non-final result leaves the counter and the blocked hosts as
\* they are, and no other step changes the counter.
C30_PendingAccounting ==
    /\ [](pending_results >= 0 /\ pending_results = Unprocessed)
    /\ [][/\ last'.op = "queue" => pending_results' = pending_results + 1
          /\ (last'.op = "result" /\ drv'.pc # "error")
                => pending_results' = pending_results - 1
          /\ last'.op = "partial"
                => /\ pending_results' = pending_results
                   /\ blocked_hosts' = blocked_hosts
          /\ last'.op \notin {"queue", "result"} => pending_results' = pending_results]_vars

\* a retry or an item result of a host has been processed while both hosts
\* wait for their final result
C30_Witness ==
    /\ last.op = "partial"
    /\ pending_results = 2
    /\ last.host \in blocked_hosts
    /\ Unprocessed = 2

-----------------------------------------------------------------------------
(* The hand-off of results, checked under SpecChannel and LiveChannel.     *)

\* the result the reader thread holds and has not appended
HeldSeq == IF ch.rpc \in {"acquire", "append"} THEN <<ch.held>> ELSE <<>>

\* the results on the channel
ChannelResults == SelectSeq(ch.final_q, LAMBDA r : r # Sentinel)

\* every result put so far is in exactly one place, and the places in a row
\* give the order of arrival: taken, in the deque, held by the reader, on
\* the channel
InArrivalOrder ==
    ch.taken \o ch.results \o HeldSeq \o ChannelResults = [i \in 1..ch.put |-> i]

\* a thread is at the append or at the pop only while it holds the lock
UnderLock ==
    /\ ch.rpc \in {"append", "release"} <=> ch.lock = "reader"
    /\ ch.dpc \in {"pop", "release"} <=> ch.lock = "driver"

\* the result r was put on the channel and the sentinel was not
Placed(r) == r <= ch.put /\ ~ch.sent

Appended(r) == InList(r, ch.taken) \/ InList(r, ch.results)

Taken(r) == InList(r, ch.taken)

\* C31 as stated: every result is in one place in arrival order, appends and
\* pops are made under the lock, the lock is released afterwards, each result
\* put before the sentinel is appended and is taken by the driver, and the
\* reader thread ends after the sentinel is put.
C31_HandOff ==
    /\ [](InArrivalOrder /\ UnderLock)
    /\ (ch.lock # "free") ~> (ch.lock = "free")
    /\ \A r \in 1..MaxResults : Placed(r) ~> Appended(r)
    /\ \A r \in 1..MaxResults : Placed(r) ~> Taken(r)
    /\ ch.sent ~> (ch.rpc = "done")

\* C31 as the code has it: the same, but a result is taken by the driver
\* only when the run is not terminated first.
C31_HandOffUnlessTerminated ==
    /\ [](InArrivalOrder /\ UnderLock)
    /\ (ch.lock # "free") ~> (ch.lock = "free")
    /\ \A r \in 1..MaxResults : Placed(r) ~> Appended(r)
    /\ \A r \in 1..MaxResults : Placed(r) ~> (Taken(r) \/ ch.terminated)
    /\ ch.sent ~> (ch.rpc = "done")

\* all results were taken in order by a run that was not terminated, and the
\* cleanup has joined the reader thread
C31_Witness ==
    /\ ch.op = "join"
    /\ ~ch.terminated
    /\ ch.taken = [i \in 1..MaxResults |-> i]
    /\ ch.rpc = "done"

-----------------------------------------------------------------------------
(* The pool of workers, checked under Spec. Slots are numbered 1..N here,  *)
(* 0..N-1 in the code.                                                     *)

\* the number of slots from the slot a on to the slot b, going round
SlotsFrom(a, b) == (b - a + NumWorkers) % NumWorkers

\* C32: no more than N workers are alive and the cursor is a slot; a step
\* that queues a unit of work starts its worker in a slot whose worker is not
\* alive, the first such slot from the cursor on, leaves every other slot as
\* it is, and leaves the cursor at the slot after the one it used.
C32_BoundedPool ==
    /\ [](/\ Cardinality({i \in 1..NumWorkers : workers[i].alive}) <= NumWorkers
          /\ cur_worker \in 1..NumWorkers)
    /\ [][last'.op = "queue"
            => \E i \in 1..NumWorkers :
                 /\ ~workers[i].alive
                 /\ workers'[i].alive
                 /\ workers'[i].job = [host |-> last'.host, task |-> last'.task]
                 /\ \A j \in 1..NumWorkers \ {i} : workers'[j] = workers[j]
                 /\ \A j \in 1..NumWorkers :
                       SlotsFrom(cur_worker, j) < SlotsFrom(cur_worker, i)
                       => workers[j].alive
                 /\ cur_worker' = (i % NumWorkers) + 1]_vars

\* the third unit of work was queued while the worker of the slot at the
\* cursor, the first one, was alive: the scan passed over it, took the second
\* slot and wrapped
C32_Witness ==
    /\ last.op = "queue"
    /\ Cardinality(queued_task_cache) = 3
    /\ cur_worker = 1
    /\ workers[1].alive
    /\ workers[1].job.host # last.host
    /\ workers[2].job.host = last.host

-----------------------------------------------------------------------------
(* Notifications and the wipe of the ledger, checked under Spec.           *)

\* the step ends the run of handler i by wiping its ledger entry
Wipes(i) ==
    /\ last'.op = "handler_run_done"
    /\ drv.hidx = i
    /\ notified_handlers'[i] = <<>>

\* the host h need not be served by handler i: it was failed without
\* force_handlers when the flush of the handler began, or the handler is
\* run_once
Excused(i, h) ==
    \/ h \in flush.failed[i] /\ ~play.force_handlers
    \/ play.handlers[i].run_once

\* C33: when the ledger entry of a handler is wiped, every host in it was in
\* the list the dispatch loop went through, and was dispatched the handler
\* in this flush unless it is excused.
C33_NoNotificationLost ==
    [][\A i \in 1..Len(play.handlers) :
         Wipes(i)
         => \A h \in Range(notified_handlers[i]) :
              /\ InList(h, flush.snap[i])
              /\ flush.disp[i][h] >= 1 \/ Excused(i, h)]_vars

-----------------------------------------------------------------------------
(* The order of a handler flush, checked under Spec.                       *)

\* a unit of work of handler k is with a worker, on the channel or in the
\* deque
HandlerInFlight(k) ==
    \/ \E w \in 1..NumWorkers : workers[w].alive /\ workers[w].job.task = TaskRef("handler", k)
    \/ \E n \in 1..Len(final_q) : final_q[n].task = TaskRef("handler", k)
    \/ \E n \in 1..Len(results) : results[n].task = TaskRef("handler", k)

\* run_handlers goes through the handlers one by one and runs those with a
\* non-empty ledger entry; a handler is queued only after the handlers
\* before it, and with no unit of another handler in flight
FlushInOrder ==
    /\ (last'.op = "run_handlers" /\ drv'.pc = "hd_loop")
          => notified_handlers[drv.hidx] # <<>> /\ drv'.hidx = drv.hidx
    /\ (last'.op = "run_handlers" /\ drv'.pc = "rh_loop")
          => notified_handlers[drv.hidx] = <<>> /\ drv'.hidx = drv.hidx + 1
    /\ (last'.op = "queue" /\ last'.task.kind = "handler")
          => /\ \A k \in flush.done : k < last'.task.idx
             /\ \A k \in 1..Len(play.handlers) \ {last'.task.idx} : ~HandlerInFlight(k)

-----------------------------------------------------------------------------
(* Prefixed terms and the implicit base set, checked under SpecInv.        *)

\* C35: in a pattern of a regular term and a term written with & or !, a
\* prefixed term whose name is the name of an existing host matches that
\* host only: "g1,!h" is the match of g1 without h and "g1,&h" is h if g1
\* matches it, whatever group or glob the name h also stands for.
C35_PrefixedExactHost ==
    (/\ Called /\ Len(ret.pattern) = 2
     /\ \E i \in 1..2 : /\ IsRegular(ret.pattern[i])
                        /\ IsExclude(ret.pattern[3 - i]) \/ IsIntersection(ret.pattern[3 - i])
                        /\ InList(ret.pattern[3 - i].name, inv_hosts))
    => LET i == CHOOSE i \in 1..2 : IsRegular(ret.pattern[i])
           A == MatchOfTerm(ret.pattern[i].name)
           h == ret.pattern[3 - i].name
       IN  ret.hosts = IF IsExclude(ret.pattern[3 - i])
                       THEN FirstSeen(Filter(A, LAMBDA x : x # h))
                       ELSE FirstSeen(Filter(A, LAMBDA x : x = h))

-----------------------------------------------------------------------------
(* The caches while the inventory changes, checked under SpecChange.       *)

\* the step is the operation op on the inventory
Operation(op) == change'.n # change.n /\ change'.op = op

\* the step leaves both caches empty
BothCachesEmpty == hosts_patterns_cache' = <<>> /\ pattern_cache' = <<>>

\* a step that is a get_hosts call returns what the inventory it is made on
\* gives without any cache
AnsweredOnInventory ==
    ncalls' = ncalls + 1
    => \E cf \in {CacheFree(ret'.given, FALSE, FALSE, "None")} :
          /\ ret'.error = cf.error
          /\ ret'.hosts = cf.hosts

\* C36: refresh_inventory and reconcile_inventory leave the full-pattern
\* cache and the per-term cache empty, and every get_hosts call returns the
\* list its pattern gives on the inventory as it is at the call.
C36_WholesaleInvalidation ==
    /\ [][Operation("refresh") \/ Operation("reconcile") => BothCachesEmpty]_vars
    /\ [][AnsweredOnInventory]_vars

\* a pattern resolved before a refresh is resolved again after it and gives
\* another list
C36_Witness ==
    /\ change.op = "refresh"
    /\ Called
    /\ change.ret # NoCall
    /\ ncalls > change.calls
    /\ ret.given = change.ret.given
    /\ ~ret.error /\ ~change.ret.error
    /\ ret.hosts # change.ret.hosts
    /\ change.ret.hosts # <<>>

-----------------------------------------------------------------------------
(* Range subscripts, checked under SpecSub.                                 *)

\* the subscript is a range written with both ends, [a:b] or [a-b]
IsClosedRange(subscript) == ~subscript.none /\ subscript.has_end /\ subscript.end >= 0

\* C38: a term with a range subscript [a:b], a and b not negative, resolves
\* without error to the hosts at the 0-based positions a through b of its
\* match list, in the list's order: to no host when b < a, and never to the
\* single host at position a that the index [a] selects.
C38_RangeInclusive ==
    \A n \in SubTerms :
        (AskedFor(n) /\ IsClosedRange(split_subscript(n).subscript))
        => /\ ~ret.error
           /\ ret.hosts = Positions(DbList, split_subscript(n).subscript.start,
                                    split_subscript(n).subscript.end)

-----------------------------------------------------------------------------
(* Failed hosts in a handler flush, checked under Spec.                     *)

\* the step is the wipe that ends the run of handler i
WipeOf(i) ==
    /\ last'.op = "handler_run_done"
    /\ drv.hidx = i
    /\ drv'.handler_result = "True"

\* C39: a handler is queued for a host only if the iterator does not hold
\* the host failed or force_handlers is set, and the wipe that ends the
\* handler's run removes every host from its ledger entry, the failed hosts
\* that were passed over included.
C39_FailedHostsNotServed ==
    /\ [][(last'.op = "queue" /\ last'.task.kind = "handler")
          => ~iterator_is_failed(last'.host) \/ play.force_handlers]_vars
    /\ [][\A i \in 1..Len(play.handlers) :
            WipeOf(i)
            => \A h \in Range(notified_handlers[i]) :
                  (iterator_is_failed(h) /\ flush.disp[i][h] = 0)
                  => ~InList(h, notified_handlers'[i])]_vars

\* a handler's entry was wiped after it ran on one notifying host and passed
\* over another that was failed
C39_Witness ==
    /\ last.op = "handler_run_done"
    /\ ~play.force_handlers
    /\ \E i \in flush.done :
         /\ notified_handlers[i] = <<>>
         /\ \E h \in Range(flush.snap[i]) :
              /\ iterator_is_failed(h)
              /\ h \in flush.failed[i]
              /\ flush.disp[i][h] = 0
         /\ \E h \in Range(flush.snap[i]) : flush.disp[i][h] >= 1

-----------------------------------------------------------------------------
(* Patterns without a regular term, checked under SpecInv.                  *)

\* the call just made asked for the single prefixed term pfx name
AskedPrefixed(pfx, name) == Called /\ ret.pattern = <<Term(pfx, name)>>

\* C40: a pattern that is a single prefixed term is resolved on the hosts of
\* "all": "!g2" returns the hosts of all that the term g2 does not match and
\* "&g2" the hosts of all that it matches, in the order of all.
C40_ImplicitAll ==
    \A n \in TermNames :
        /\ AskedPrefixed("!", n)
              => /\ ~ret.error
                 /\ ret.hosts = Filter(MatchOfTerm("all"),
                                       LAMBDA h : ~InList(h, MatchOfTerm(n)))
        /\ AskedPrefixed("&", n)
              => /\ ~ret.error
                 /\ ret.hosts = Filter(MatchOfTerm("all"),
                                       LAMBDA h : InList(h, MatchOfTerm(n)))
====
